---- MODULE Spec2Model ----
(***************************************************************************)
(* Fusion manufacturing pipeline: order validation (validator.py), the     *)
(* Run Order command (command_handler.py) and the order orchestrator       *)
(* (order_processor.py) with its collaborators parameter_manager.py,       *)
(* cam_manager.py and post_processor.py.                                   *)
(*                                                                         *)
(* JSON values are tagged records.  A JSON string is a sequence of         *)
(* one-character strings, so that split, isdigit, basename and replace are *)
(* computed on characters as the Python code computes them.  Object keys   *)
(* are only compared and tested for emptiness, and are TLA+ strings.       *)
(***************************************************************************)
EXTENDS Integers, Sequences, FiniteSets, TLC

(***************************************************************************)
(* JSON value tree, as json.load builds it                                 *)
(***************************************************************************)
JNull == [t |-> "null"]

JBool(b) == [t |-> "bool", b |-> b]

JInt(n) == [t |-> "int", n |-> n]

\* a float with one decimal digit: x10 is ten times its value (36.5 -> 365)
JFloat(x10) == [t |-> "float", x10 |-> x10]

JStr(s) == [t |-> "str", s |-> s]

JList(items) == [t |-> "list", items |-> items]

\* a dict keeps insertion order: keys[i] maps to vals[i], keys pairwise distinct
JObj(keys, vals) == [t |-> "obj", keys |-> keys, vals |-> vals]

isinstance_dict(v) == v.t = "obj"

isinstance_list(v) == v.t = "list"

isinstance_str(v) == v.t = "str"

\* bool is a subclass of int in Python: isinstance(True, int) is True
isinstance_int(v) == v.t \in {"int", "bool"}

isinstance_float(v) == v.t = "float"

isinstance_bool(v) == v.t = "bool"

\* Python truth value of a JSON value (the `not x` / `if x` tests of the code)
Truthy(v) ==
    CASE v.t = "null" -> FALSE
      [] v.t = "bool" -> v.b
      [] v.t = "int" -> v.n # 0
      [] v.t = "float" -> v.x10 # 0
      [] v.t = "str" -> v.s # <<>>
      [] v.t = "list" -> v.items # <<>>
      [] v.t = "obj" -> v.keys # <<>>

\* len(v): defined for str, list and dict; TypeError for None, bool, int, float
HasLen(v) == v.t \in {"str", "list", "obj"}

PyLen(v) ==
    CASE v.t = "str" -> Len(v.s)
      [] v.t = "list" -> Len(v.items)
      [] v.t = "obj" -> Len(v.keys)

\* `key in d` for a dict d
HasKey(d, key) == \E i \in 1..Len(d.keys) : d.keys[i] = key

\* d.get(key, default)
DictGet(d, key, default) ==
    IF HasKey(d, key)
    THEN d.vals[CHOOSE i \in 1..Len(d.keys) : d.keys[i] = key]
    ELSE default

\* hash(v) succeeds: lists and dicts are unhashable (TypeError)
Hashable(v) == v.t \notin {"list", "obj"}

\* the numeric value times ten of a bool, int or float
Num10(v) ==
    CASE v.t = "bool" -> (IF v.b THEN 10 ELSE 0)
      [] v.t = "int" -> 10 * v.n
      [] v.t = "float" -> v.x10

IsNumeric(v) == v.t \in {"bool", "int", "float"}

\* a == b for hashable JSON scalars (1 == True == 1.0 in Python)
PyEq(a, b) ==
    IF IsNumeric(a) /\ IsNumeric(b) THEN Num10(a) = Num10(b)
    ELSE IF a.t # b.t THEN FALSE
    ELSE IF a.t = "str" THEN a.s = b.s
    ELSE TRUE

(***************************************************************************)
(* Python string functions on character sequences                          *)
(***************************************************************************)
Digits == {"0", "1", "2", "3", "4", "5", "6", "7", "8", "9"}

\* SUPERSCRIPT TWO, written "^2" here: one of the characters outside 0-9
\* that Unicode classes as a digit
SuperscriptTwo == "^2"

\* the characters str.isdigit() accepts
DigitCharacters == Digits \cup {SuperscriptTwo}

\* str.isdigit(): non-empty and every character a digit
isdigit(s) == s # <<>> /\ \A i \in 1..Len(s) : s[i] \in DigitCharacters

\* the digit runs int() accepts: SUPERSCRIPT TWO is no decimal digit
isdecimal(s) == s # <<>> /\ \A i \in 1..Len(s) : s[i] \in Digits

RECURSIVE SplitFrom(_, _, _, _)
\* s.split(sep) for a one-character sep: cur is the part being read
SplitFrom(s, sep, i, cur) ==
    IF i > Len(s) THEN <<cur>>
    ELSE IF s[i] = sep THEN <<cur>> \o SplitFrom(s, sep, i + 1, <<>>)
    ELSE SplitFrom(s, sep, i + 1, Append(cur, s[i]))

split(s, sep) == SplitFrom(s, sep, 1, <<>>)

(***************************************************************************)
(* validator.py                                                            *)
(***************************************************************************)
\* OrderValidator._validate_version
_validate_version(version) ==
    IF ~isinstance_str(version) THEN FALSE
    ELSE LET parts == split(version.s, ".")
         IN  IF Len(parts) # 3 THEN FALSE
             ELSE \A i \in 1..Len(parts) : isdigit(parts[i])

RECURSIVE ParamErrorsFrom(_, _, _)
\* the loop of OrderValidator._validate_parameters from entry i on
ParamErrorsFrom(parameters, prefix, i) ==
    IF i > Len(parameters.keys) THEN <<>>
    ELSE LET param_name == parameters.keys[i]
             param_value == parameters.vals[i]
             here ==
                 IF param_name = ""
                 THEN << prefix \o <<"parameters", "Invalid parameter name">> >>
                 ELSE IF ~(isinstance_int(param_value) \/ isinstance_float(param_value)
                           \/ isinstance_str(param_value))
                 THEN << prefix \o <<"parameters", param_name,
                           "Invalid value type (must be number, string, or integer)">> >>
                 ELSE <<>>
         IN  here \o ParamErrorsFrom(parameters, prefix, i + 1)

\* a check of the parameter values that takes strings only
_validate_parameters_strings_only(parameters, prefix) ==
    [i \in 1..Len(parameters.keys) |->
        prefix \o <<"parameters", parameters.keys[i],
          "Invalid value type (must be number, string, or integer)">>]

\* OrderValidator._validate_parameters
_validate_parameters(parameters, prefix) == ParamErrorsFrom(parameters, prefix, 1)

\* the error a missing required field adds, or nothing
MissingField(obj, field, err) == IF HasKey(obj, field) THEN <<>> ELSE <<err>>

\* OrderValidator._validate_component: component is any JSON value
_validate_component(component, index) ==
    LET prefix == <<"Component", index>>
    IN  IF ~isinstance_dict(component) THEN << prefix \o <<"Must be an object">> >>
        ELSE
        LET comp_id == DictGet(component, "componentId", JStr(<<>>))
            model_path == DictGet(component, "fusionModelPath", JStr(<<>>))
            parameters == DictGet(component, "parameters", JNull)
            setup_names == DictGet(component, "setupNames", JNull)
            config == DictGet(component, "postProcessorConfig", JNull)
        IN  MissingField(component, "componentId",
                         prefix \o <<"Missing required field", "componentId">>)
            \o MissingField(component, "fusionModelPath",
                            prefix \o <<"Missing required field", "fusionModelPath">>)
            \o MissingField(component, "parameters",
                            prefix \o <<"Missing required field", "parameters">>)
            \o (IF ~Truthy(comp_id) \/ ~isinstance_str(comp_id)
                THEN << prefix \o <<"componentId must be a non-empty string">> >>
                ELSE <<>>)
            \o (IF ~Truthy(model_path) \/ ~isinstance_str(model_path)
                THEN << prefix \o <<"fusionModelPath must be a non-empty string">> >>
                ELSE <<>>)
            \o (IF parameters = JNull THEN <<>>
                ELSE IF ~isinstance_dict(parameters)
                THEN << prefix \o <<"parameters must be an object">> >>
                ELSE _validate_parameters(parameters, prefix))
            \o (IF ~HasKey(component, "setupNames") THEN <<>>
                ELSE IF ~isinstance_list(setup_names)
                THEN << prefix \o <<"setupNames must be an array">> >>
                ELSE IF ~(\A i \in 1..Len(setup_names.items) :
                              isinstance_str(setup_names.items[i]))
                THEN << prefix \o <<"All setupNames must be strings">> >>
                ELSE <<>>)
            \o (IF HasKey(component, "postProcessorConfig") /\ ~isinstance_dict(config)
                THEN << prefix \o <<"postProcessorConfig must be an object">> >>
                ELSE <<>>)

\* OrderValidator._validate_output_config
_validate_output_config(config) ==
    IF ~isinstance_dict(config) THEN << <<"outputConfig must be an object">> >>
    ELSE (IF HasKey(config, "baseDirectory")
             /\ ~isinstance_str(DictGet(config, "baseDirectory", JNull))
          THEN << <<"outputConfig.baseDirectory must be a string">> >>
          ELSE <<>>)
         \o (IF HasKey(config, "includeTimestamp")
                /\ ~isinstance_bool(DictGet(config, "includeTimestamp", JNull))
             THEN << <<"outputConfig.includeTimestamp must be a boolean">> >>
             ELSE <<>>)

\* what a call returns: a value, or the exception that left it
Returned(value) == [raised |-> FALSE, value |-> value]

Raised(exc) == [raised |-> TRUE, exc |-> exc]

RECURSIVE ComponentsLoop(_, _, _, _)
\* the loop over components of validate_order (index is the 0-based idx of
\* the code); component_ids is the set of ids seen so far.  Returns the
\* errors, or the exception raised by component.get on a non-dict or by
\* hashing an unhashable componentId.
ComponentsLoop(components, index, component_ids, errors) ==
    IF index >= Len(components) THEN Returned(errors)
    ELSE LET component == components[index + 1]
             errs1 == errors \o _validate_component(component, index)
         IN  IF ~isinstance_dict(component) THEN Raised("AttributeError")
             ELSE LET comp_id == DictGet(component, "componentId", JNull)
                  IN  IF ~Truthy(comp_id)
                      THEN ComponentsLoop(components, index + 1, component_ids, errs1)
                      ELSE IF ~Hashable(comp_id) THEN Raised("TypeError")
                      ELSE IF \E c \in component_ids : PyEq(c, comp_id)
                      THEN ComponentsLoop(components, index + 1, component_ids,
                               Append(errs1, <<"Duplicate componentId", comp_id>>))
                      ELSE ComponentsLoop(components, index + 1,
                               component_ids \cup {comp_id}, errs1)

\* a result (is_valid, errors)
ValidationResult(is_valid, errors) == [is_valid |-> is_valid, errors |-> errors]

\* missing fields that do not end the validation
return_on_errors_never(errors) == FALSE

\* validate_order, "if errors: return False, errors" after the required fields
return_on_errors(errors) == Len(errors) > 0

\* OrderValidator.validate_order: the (is_valid, errors) it returns, or the
\* exception that leaves it
validate_order(order_data) ==
    IF ~isinstance_dict(order_data)
    THEN Returned(ValidationResult(FALSE, << <<"Order must be a JSON object">> >>))
    ELSE
    LET missing == MissingField(order_data, "version",
                                <<"Missing required field", "version">>)
                   \o MissingField(order_data, "orderId",
                                   <<"Missing required field", "orderId">>)
                   \o MissingField(order_data, "components",
                                   <<"Missing required field", "components">>)
    IN  IF return_on_errors(missing) THEN Returned(ValidationResult(FALSE, missing))
        ELSE
        LET version == DictGet(order_data, "version", JStr(<<>>))
            e_version == IF ~_validate_version(version)
                         THEN << <<"Invalid version format", version>> >>
                         ELSE <<>>
            e_order_id == IF ~Truthy(DictGet(order_data, "orderId", JNull))
                          THEN << <<"orderId cannot be empty">> >>
                          ELSE <<>>
            components == DictGet(order_data, "components", JList(<<>>))
            comps == IF ~isinstance_list(components)
                     THEN Returned(<< <<"components must be an array">> >>)
                     ELSE IF Len(components.items) = 0
                     THEN Returned(<< <<"components array must contain at least 1 item">> >>)
                     ELSE ComponentsLoop(components.items, 0, {}, <<>>)
            e_config == IF HasKey(order_data, "outputConfig")
                        THEN _validate_output_config(
                                 DictGet(order_data, "outputConfig", JNull))
                        ELSE <<>>
        IN  IF comps.raised THEN comps
            ELSE LET errors == missing \o e_version \o e_order_id
                                \o comps.value \o e_config
                 IN  Returned(ValidationResult(Len(errors) = 0, errors))

(***************************************************************************)
(* The order file, as the file system holds it                             *)
(***************************************************************************)
\* no file at the path
FileAbsent == [kind |-> "absent"]

\* a file whose text is not JSON
FileMalformed == [kind |-> "malformed"]

\* a file holding the JSON value json
FileJson(json) == [kind |-> "json", json |-> json]

\* a file whose bytes are no text in the encoding open(order_path, 'r')
\* decodes with
FileUndecodable == [kind |-> "undecodable"]

\* OrderValidator.validate_json_file: json.load reads the whole text first,
\* and only FileNotFoundError and json.JSONDecodeError are caught
validate_json_file(file) ==
    IF file.kind = "absent"
    THEN Returned(ValidationResult(FALSE, << <<"Order file not found">> >>))
    ELSE IF file.kind = "undecodable"
    THEN Raised("UnicodeDecodeError")
    ELSE IF file.kind = "malformed"
    THEN Returned(ValidationResult(FALSE, << <<"Invalid JSON syntax">> >>))
    ELSE validate_order(file.json)

(***************************************************************************)
(* The host (Fusion application) as the add-in sees it                     *)
(***************************************************************************)
\* path separators of os.path on the platform of the hard-coded output directory
Seps == {"/", "\\"}

RECURSIVE LastSep(_, _)
\* the index of the last separator among the first i characters of p, or 0
LastSep(p, i) ==
    IF i = 0 THEN 0 ELSE IF p[i] \in Seps THEN i ELSE LastSep(p, i - 1)

\* os.path.basename
basename(p) == SubSeq(p, LastSep(p, Len(p)) + 1, Len(p))

StartsWithAt(s, i, old) ==
    i + Len(old) - 1 <= Len(s) /\ SubSeq(s, i, i + Len(old) - 1) = old

RECURSIVE ReplaceFrom(_, _, _, _)
ReplaceFrom(s, i, old, new) ==
    IF i > Len(s) THEN <<>>
    ELSE IF StartsWithAt(s, i, old) THEN new \o ReplaceFrom(s, i + Len(old), old, new)
    ELSE <<s[i]>> \o ReplaceFrom(s, i + 1, old, new)

\* str.replace(old, new) for a non-empty old
replace(s, old, new) == ReplaceFrom(s, 1, old, new)

F3D == <<".", "f", "3", "d">>

\* the model file of the world, and the name of the document it opens as
ModelPath == <<"m", "/", "S", ".", "f", "3", "d">>

DocName == <<"S">>

\* the paths for which os.path.exists is true
FsFiles == {ModelPath}

\* no document
NoDoc == <<>>

\* the user parameters of the model, with the expressions they start with
StoreNames == {"W", "H"}

InitialExpression == JStr(<<"1", " ", "i", "n">>)

InitialStore == [n \in StoreNames |-> InitialExpression]

\* one machining operation of a setup
Operation(name, isSuppressed, hasToolpath, error, warning) ==
    [name |-> name, isSuppressed |-> isSuppressed, hasToolpath |-> hasToolpath,
     error |-> error, warning |-> warning]

\* one setup of the CAM product
Setup(name, allOperations) == [name |-> name, allOperations |-> allOperations]

\* str(x) and str(x).strip() are non-empty: "" is no text, " " is blank text
HasText(text) == text \notin {"", " "}

(***************************************************************************)
(* parameter_manager.py                                                    *)
(***************************************************************************)
\* a (param_name, success, message) result
ParamResult(param_name, success, message) ==
    [name |-> param_name, success |-> success, message |-> message]

\* ParameterManager.update_parameter on the user parameters `store` (a
\* function from the names of the model's parameters to their expressions);
\* write_raises: the host raises on `param.expression = new_value`.
\* Returns success, the message and the user parameters afterwards.
update_parameter(store, param_name, new_value, write_raises) ==
    IF param_name \notin DOMAIN store
    THEN [success |-> FALSE, message |-> <<"not found in model", param_name>>,
          store |-> store, wrote |-> FALSE]
    ELSE IF write_raises
    THEN [success |-> FALSE, message |-> <<"Failed to update", param_name>>,
          store |-> store, wrote |-> FALSE]
    ELSE [success |-> TRUE,
          message |-> <<"Updated", param_name, store[param_name], new_value>>,
          store |-> [store EXCEPT ![param_name] = new_value], wrote |-> TRUE]

RECURSIVE BatchFrom(_, _, _, _, _)
\* the loop of update_parameters_batch from entry i on; raises[i] tells
\* whether the host raises on the write of entry i
BatchFrom(store, parameters, raises, i, results) ==
    IF i > Len(parameters.keys) THEN [results |-> results, store |-> store]
    ELSE LET r == update_parameter(store, parameters.keys[i], parameters.vals[i],
                                   raises[i])
         IN  BatchFrom(r.store, parameters, raises, i + 1,
                       Append(results, ParamResult(parameters.keys[i], r.success,
                                                   r.message)))

\* a batch that puts the model back as it was when one of its entries failed
update_parameters_batch_rolling_back(store, parameters, raises) ==
    LET r == BatchFrom(store, parameters, raises, 1, <<>>)
    IN  IF \E i \in 1..Len(r.results) : ~r.results[i].success
        THEN [results |-> r.results, store |-> store]
        ELSE r

\* a batch that gives up at its first failed entry
update_parameters_batch_until_failure(store, parameters, raises) ==
    LET r == BatchFrom(store, parameters, raises, 1, <<>>)
        failed == {i \in 1..Len(r.results) : ~r.results[i].success}
        last == IF failed = {} THEN Len(r.results)
                ELSE CHOOSE i \in failed : \A j \in failed : i <= j
    IN  [results |-> SubSeq(r.results, 1, last), store |-> r.store]

\* ParameterManager.update_parameters_batch for a dict `parameters`
update_parameters_batch(store, parameters, raises) ==
    BatchFrom(store, parameters, raises, 1, <<>>)

(***************************************************************************)
(* cam_manager.py                                                          *)
(***************************************************************************)
\* the positions <<setup, operation>> of the operations of a list of setups
OpPositions(setups) ==
    UNION {{<<si, oi>> : oi \in 1..Len(setups[si].allOperations)} :
              si \in 1..Len(setups)}

\* cam.generateAllToolpaths(False) once it has completed: every operation
\* that is not suppressed is recomputed.  The engine computes a toolpath for
\* an operation that carries no error and none for one that does, except
\* for the operations in `flipped`, where it does the opposite.
Generate(setups, flipped) ==
    [si \in 1..Len(setups) |->
        [setups[si] EXCEPT !.allOperations =
            [oi \in 1..Len(setups[si].allOperations) |->
                LET op == setups[si].allOperations[oi]
                IN  IF op.isSuppressed THEN op
                    ELSE [op EXCEPT !.hasToolpath =
                             IF <<si, oi>> \in flipped THEN HasText(op.error)
                             ELSE ~HasText(op.error)]]]]

RECURSIVE WarningMessages(_, _)
\* warning_messages of one setup after the loop over its operations i..
WarningMessages(ops, i) ==
    IF i > Len(ops) THEN <<>>
    ELSE LET op == ops[i]
             here ==
                 IF op.isSuppressed THEN << <<op.name, "is suppressed (skipped)">> >>
                 ELSE (IF op.hasToolpath THEN <<>>
                       ELSE IF HasText(op.error)
                       THEN << <<op.name, "(pre-existing error)">> >>
                       ELSE << <<op.name, "(no toolpath generated)">> >>)
                      \o (IF HasText(op.warning) THEN << <<op.name, op.warning>> >>
                          ELSE <<>>)
         IN  here \o WarningMessages(ops, i + 1)

\* the (setup_name, success, message) record the verification pass of
\* regenerate_all_toolpaths appends for one setup
VerifySetup(setup) ==
    LET ops == setup.allOperations
        operations_total == Len(ops)
        operations_with_toolpaths ==
            Cardinality({i \in 1..Len(ops) : ~ops[i].isSuppressed /\ ops[i].hasToolpath})
        warning_messages == WarningMessages(ops, 1)
    IN  IF operations_with_toolpaths > 0
        THEN [name |-> setup.name, success |-> TRUE, message |-> "Regenerated"]
        ELSE IF operations_total > 0 /\ Len(warning_messages) >= operations_total
        THEN [name |-> setup.name, success |-> TRUE,
              message |-> "All operation(s) have errors - none regenerated"]
        ELSE [name |-> setup.name, success |-> FALSE,
              message |-> "No operations regenerated"]

\* a regeneration that succeeds as soon as one setup does
regenerate_all_toolpaths_any(setups, raises, flipped) ==
    IF Len(setups) = 0
    THEN [all_success |-> FALSE, results |-> <<>>, setups |-> setups,
          triggered |-> FALSE]
    ELSE IF raises
    THEN [all_success |-> FALSE,
          results |-> [si \in 1..Len(setups) |->
                          [name |-> setups[si].name, success |-> FALSE,
                           message |-> "Exception"]],
          setups |-> setups, triggered |-> TRUE]
    ELSE LET after == Generate(setups, flipped)
             results == [si \in 1..Len(after) |-> VerifySetup(after[si])]
         IN  [all_success |-> \E si \in 1..Len(results) : results[si].success,
              results |-> results, setups |-> after, triggered |-> TRUE]

\* CAMManager.regenerate_all_toolpaths once the CAM product is set: `raises`
\* tells whether generateAllToolpaths (or the wait for it) raises.  Returns
\* (all_success, results), the setups afterwards and whether the engine was
\* triggered.
regenerate_all_toolpaths(setups, raises, flipped) ==
    IF Len(setups) = 0
    THEN [all_success |-> FALSE, results |-> <<>>, setups |-> setups,
          triggered |-> FALSE]
    ELSE IF raises
    THEN [all_success |-> FALSE,
          results |-> [si \in 1..Len(setups) |->
                          [name |-> setups[si].name, success |-> FALSE,
                           message |-> "Exception"]],
          setups |-> setups, triggered |-> TRUE]
    ELSE LET after == Generate(setups, flipped)
             results == [si \in 1..Len(after) |-> VerifySetup(after[si])]
         IN  [all_success |-> \A si \in 1..Len(results) : results[si].success,
              results |-> results, setups |-> after, triggered |-> TRUE]

\* CAMManager.list_setup_names
list_setup_names(setups) == {setups[si].name : si \in 1..Len(setups)}

\* the (setup_name, success, message) records of the loop of
\* regenerate_specific_setups (lines 286-308) over `setup_names`, where the
\* setups that are not found are reported one by one
SpecificResults(setups, setup_names, raises) ==
    [i \in 1..Len(setup_names) |->
        IF setup_names[i] \notin list_setup_names(setups)
        THEN [name |-> setup_names[i], success |-> FALSE, message |-> "Setup not found"]
        ELSE IF raises[i]
        THEN [name |-> setup_names[i], success |-> FALSE, message |-> "Exception"]
        ELSE [name |-> setup_names[i], success |-> TRUE,
              message |-> "Toolpaths regenerated"]]

\* a regeneration of the named setups without the check of the names first
regenerate_specific_setups_unchecked(cam_product, setups, setup_names, raises) ==
    IF cam_product # "cam"
    THEN [all_success |-> FALSE, results |-> <<>>, triggered |-> 0]
    ELSE LET results == SpecificResults(setups, setup_names, raises)
         IN  [all_success |-> \A i \in 1..Len(results) : results[i].success,
              results |-> results,
              triggered |-> Cardinality({i \in 1..Len(setup_names) :
                                setup_names[i] \in list_setup_names(setups)})]

\* CAMManager.regenerate_specific_setups(setup_names): raises[i] tells
\* whether generateAllToolpaths (or the wait for it) raises for the i-th
\* name.  Returns (all_success, results) and the number of times the
\* engine was triggered.
regenerate_specific_setups(cam_product, setups, setup_names, raises) ==
    IF cam_product # "cam"
    THEN [all_success |-> FALSE, results |-> <<>>, triggered |-> 0]
    ELSE LET available_setups == list_setup_names(setups)
             missing == SelectSeq(setup_names, LAMBDA name : name \notin available_setups)
         IN  IF missing # <<>>
             THEN [all_success |-> FALSE, results |-> <<>>, triggered |-> 0]
             ELSE LET results == SpecificResults(setups, setup_names, raises)
                  IN  [all_success |-> \A i \in 1..Len(results) : results[i].success,
                       results |-> results, triggered |-> Len(setup_names)]

(***************************************************************************)
(* post_processor.py                                                       *)
(***************************************************************************)
DigitChars == <<"0", "1", "2", "3", "4", "5", "6", "7", "8", "9">>

DigitValue(c) == (CHOOSE i \in 1..Len(DigitChars) : DigitChars[i] = c) - 1

RECURSIVE FormatNat(_)
FormatNat(n) ==
    IF n < 10 THEN <<DigitChars[n + 1]>>
    ELSE Append(FormatNat(n \div 10), DigitChars[(n % 10) + 1])

\* str(n) for an integer n
FormatInt(n) == IF n < 0 THEN <<"-">> \o FormatNat(0 - n) ELSE FormatNat(n)

Whitespace == {" ", "\n", "\t"}

RECURSIVE StripLeft(_)
StripLeft(s) ==
    IF s # <<>> /\ Head(s) \in Whitespace THEN StripLeft(Tail(s)) ELSE s

RECURSIVE StripRight(_)
StripRight(s) ==
    IF s # <<>> /\ s[Len(s)] \in Whitespace THEN StripRight(SubSeq(s, 1, Len(s) - 1))
    ELSE s

\* str.strip()
strip(s) == StripRight(StripLeft(s))

RECURSIVE DigitsValue(_)
DigitsValue(s) ==
    IF s = <<>> THEN 0
    ELSE 10 * DigitsValue(SubSeq(s, 1, Len(s) - 1)) + DigitValue(s[Len(s)])

\* int(text) for decimal text with an optional sign; ok is false where int
\* raises ValueError
ParseInt(text) ==
    LET body == IF text # <<>> /\ Head(text) \in {"+", "-"} THEN Tail(text) ELSE text
    IN  IF ~isdecimal(body) THEN [ok |-> FALSE, n |-> 0]
        ELSE [ok |-> TRUE,
              n |-> IF Head(text) = "-" THEN 0 - DigitsValue(body)
                    ELSE DigitsValue(body)]

\* nc_program_counter.txt: absent, or a file with a text
CounterAbsent == [exists |-> FALSE, text |-> <<>>]

CounterFile(text) == [exists |-> TRUE, text |-> text]

FirstProgramNumber == 1001

\* int(time.time() % 10000) + 1000 for a clock reading in whole seconds
FallbackNumber(clock) == (clock % 10000) + 1000

\* an allocation whose except clause starts the counter file over
get_next_program_number_repairing(counter, read_ok, write_ok, clock) ==
    LET parsed == ParseInt(strip(counter.text))
    IN  IF (counter.exists /\ (~read_ok \/ ~parsed.ok)) \/ ~write_ok
        THEN [number |-> FallbackNumber(clock),
              counter |-> CounterFile(FormatInt(FirstProgramNumber)),
              fallback |-> TRUE, raised |-> FALSE]
        ELSE LET next_number == IF counter.exists THEN parsed.n + 1
                                ELSE FirstProgramNumber
             IN  [number |-> next_number,
                  counter |-> CounterFile(FormatInt(next_number)),
                  fallback |-> FALSE, raised |-> FALSE]

\* an allocation that returns the next number and does not save it
get_next_program_number_unsaved(counter, read_ok, write_ok, clock) ==
    LET parsed == ParseInt(strip(counter.text))
    IN  IF (counter.exists /\ (~read_ok \/ ~parsed.ok)) \/ ~write_ok
        THEN [number |-> FallbackNumber(clock), counter |-> counter, fallback |-> TRUE,
              raised |-> FALSE]
        ELSE [number |-> IF counter.exists THEN parsed.n + 1 ELSE FirstProgramNumber,
              counter |-> counter, fallback |-> FALSE, raised |-> FALSE]

\* an allocation without the except clause: what goes wrong leaves the method
get_next_program_number_unguarded(counter, read_ok, write_ok, clock) ==
    LET parsed == ParseInt(strip(counter.text))
    IN  IF (counter.exists /\ (~read_ok \/ ~parsed.ok)) \/ ~write_ok
        THEN [number |-> 0, counter |-> counter, fallback |-> FALSE, raised |-> TRUE]
        ELSE LET next_number == IF counter.exists THEN parsed.n + 1
                                ELSE FirstProgramNumber
             IN  [number |-> next_number,
                  counter |-> CounterFile(FormatInt(next_number)),
                  fallback |-> FALSE, raised |-> FALSE]

\* PostProcessor.get_next_program_number: read_ok / write_ok tell whether
\* opening the counter file for reading / writing succeeds, clock is
\* time.time().  Returns the number, the counter file afterwards, whether
\* the except branch produced the number and whether an exception left the
\* method (never: the except clause at line 56 catches every Exception).
get_next_program_number(counter, read_ok, write_ok, clock) ==
    LET parsed == ParseInt(strip(counter.text))
        fallback == [number |-> FallbackNumber(clock), counter |-> counter,
                     fallback |-> TRUE, raised |-> FALSE]
    IN  IF counter.exists /\ (~read_ok \/ ~parsed.ok) THEN fallback
        ELSE LET next_number == IF counter.exists THEN parsed.n + 1
                                ELSE FirstProgramNumber
             IN  IF ~write_ok THEN fallback
                 ELSE [number |-> next_number,
                       counter |-> CounterFile(FormatInt(next_number)),
                       fallback |-> FALSE, raised |-> FALSE]

\* f"{program_number}.nc"
OutputFilename(program_number) == FormatInt(program_number) \o <<".", "n", "c">>

\* the output directory: a function from the names of its files to their
\* sizes in bytes
NoFiles == [n \in {} |-> 0]

\* the directory once `name` was written with `size` bytes
WriteFile(files, name, size) ==
    [n \in (DOMAIN files) \cup {name} |-> IF n = name THEN size ELSE files[n]]

\* the size of the G-code the engine writes for a setup
GcodeSize == 120

\* the check of its toolpaths without the test of isSuppressed
has_valid_toolpaths_ignoring_suppression(setup) ==
    \E i \in 1..Len(setup.allOperations) : setup.allOperations[i].hasToolpath

\* post_process_setup, lines 76-81: some operation has a toolpath and is not
\* suppressed
has_valid_toolpaths(setup) ==
    \E i \in 1..Len(setup.allOperations) :
        setup.allOperations[i].hasToolpath /\ ~setup.allOperations[i].isSuppressed

\* an emission that succeeds only on an output file that was not there
\* before the engine was called
post_process_setup_expecting_new_file(setup, program_number, files, engine) ==
    LET has_toolpaths == has_valid_toolpaths(setup)
        output_filename == OutputFilename(program_number)
        failed(message, after, invoked) ==
            [success |-> FALSE, message |-> message, file_path |-> <<>>,
             file_size |-> 0, files |-> after, invoked |-> invoked]
    IN  IF ~has_toolpaths THEN failed("no valid toolpaths to post", files, FALSE)
        ELSE IF engine = "no_post" THEN failed("Post processor not found", files, FALSE)
        ELSE IF engine = "raises" THEN failed("Post processing failed", files, TRUE)
        ELSE LET after == IF engine = "ok"
                          THEN WriteFile(files, output_filename, GcodeSize)
                          ELSE IF engine = "empty_file"
                          THEN WriteFile(files, output_filename, 0)
                          ELSE files
             IN  IF output_filename \in DOMAIN after
                    /\ output_filename \notin DOMAIN files
                 THEN [success |-> TRUE, message |-> "Generated",
                       file_path |-> output_filename,
                       file_size |-> after[output_filename], files |-> after,
                       invoked |-> TRUE]
                 ELSE failed("Post process completed but file not found", after, TRUE)

\* PostProcessor.post_process_setup.  files: the output directory.  engine:
\* what the host does, "ok" (postProcess writes the output file),
\* "empty_file" (postProcess writes an output file of zero bytes), "no_post"
\* (richauto.cps is not in the post folder), "raises" (postProcess raises)
\* or "no_file" (postProcess returns and has written nothing).  Returns
\* (success, message, output file), the size the message reports, the
\* directory afterwards and whether cam.postProcess was invoked.
post_process_setup(setup, program_number, files, engine) ==
    LET has_toolpaths == has_valid_toolpaths(setup)
        output_filename == OutputFilename(program_number)
        failed(message, after, invoked) ==
            [success |-> FALSE, message |-> message, file_path |-> <<>>,
             file_size |-> 0, files |-> after, invoked |-> invoked]
    IN  IF ~has_toolpaths THEN failed("no valid toolpaths to post", files, FALSE)
        ELSE IF engine = "no_post" THEN failed("Post processor not found", files, FALSE)
        ELSE IF engine = "raises" THEN failed("Post processing failed", files, TRUE)
        ELSE LET after == IF engine = "ok"
                          THEN WriteFile(files, output_filename, GcodeSize)
                          ELSE IF engine = "empty_file"
                          THEN WriteFile(files, output_filename, 0)
                          ELSE files
             IN  IF output_filename \in DOMAIN after
                 THEN [success |-> TRUE, message |-> "Generated",
                       file_path |-> output_filename,
                       file_size |-> after[output_filename], files |-> after,
                       invoked |-> TRUE]
                 ELSE failed("Post process completed but file not found", after, TRUE)

\* a loop that gives up the remaining setups once an emission failed
next_setup_unless_failed(at, n_setups, success) ==
    IF success THEN at + 1 ELSE n_setups + 1

\* the loop of post_process_all_setups (lines 137-158) holds no break: after
\* the setup at position `at` comes the next one, whatever the outcome
next_setup(at, n_setups, success) == at + 1

\* the summary of post_process_all_setups (lines 160-171): overall_success
PostSummary(successful_posts, n_setups) ==
    IF successful_posts = n_setups THEN TRUE
    ELSE IF successful_posts > 0 THEN TRUE
    ELSE FALSE


(***************************************************************************)
(* order_processor.py: pure parts                                          *)
(***************************************************************************)
\* the elements `for ... in enumerate(components)` yields: the items of a
\* list, the characters of a str, the keys of a dict
PyIter(v) ==
    CASE v.t = "list" -> v.items
      [] v.t = "str" -> [i \in 1..Len(v.s) |-> JStr(<<v.s[i]>>)]
      [] v.t = "obj" -> [i \in 1..Len(v.keys) |-> JStr(<<v.keys[i]>>)]

\* OrderProcessor.load_order_file: the parsed order, or None (JNull) on error
load_order_file(file) == IF file.kind = "json" THEN file.json ELSE JNull

\* process_order, lines 110-126: how the call goes on once the file is read.
\* "loop": the loop over `components` starts; otherwise the message of the
\* (False, message) it returns.
process_order_begin(file) ==
    LET order == load_order_file(file)
    IN  IF ~Truthy(order) THEN [next |-> "Failed to load order file", components |-> <<>>]
        ELSE IF ~isinstance_dict(order)
        THEN [next |-> "Order processing failed", components |-> <<>>]
        ELSE LET comps == DictGet(order, "components", JList(<<>>))
             IN  IF ~HasLen(comps)
                 THEN [next |-> "Order processing failed", components |-> <<>>]
                 ELSE IF ~Truthy(comps)
                 THEN [next |-> "No components found in order", components |-> <<>>]
                 ELSE [next |-> "loop", components |-> PyIter(comps)]

\* the checks of a component without the one that refuses an empty
\* parameters dict
component_fields_allowing_empty(component) ==
    IF ~isinstance_dict(component) THEN "raises"
    ELSE LET fusion_file == DictGet(component, "fusionModelPath", JStr(<<>>))
             parameters == DictGet(component, "parameters", JObj(<<>>, <<>>))
         IN  IF ~HasLen(parameters) THEN "Exception"
             ELSE IF ~Truthy(fusion_file) THEN "No fusionFile specified"
             ELSE "ok"

\* a component that is not checked for its model path and its parameters
component_fields_unchecked(component) ==
    IF ~isinstance_dict(component) THEN "raises"
    ELSE IF ~HasLen(DictGet(component, "parameters", JObj(<<>>, <<>>))) THEN "Exception"
    ELSE "ok"

\* process_component, lines 165-179: reading the component's fields and the
\* two checks on them.  "raises": component.get raises and so does the
\* except clause, whose message reads comp_id before it is bound; "ok": the
\* component goes on to open_document; otherwise the message of the
\* (False, message) returned.
component_fields(component) ==
    IF ~isinstance_dict(component) THEN "raises"
    ELSE LET fusion_file == DictGet(component, "fusionModelPath", JStr(<<>>))
             parameters == DictGet(component, "parameters", JObj(<<>>, <<>>))
         IN  IF ~HasLen(parameters) THEN "Exception"
             ELSE IF ~Truthy(fusion_file) THEN "No fusionFile specified"
             ELSE IF ~Truthy(parameters) THEN "No parameters specified"
             ELSE "ok"

\* a lookup that never finds the model among the open documents
FirstMatch_never(docs, file_name) == 0

\* the index of the first open document whose name matches file_name, or 0
FirstMatch(docs, file_name) ==
    LET matches == {i \in 1..Len(docs) :
                       docs[i] = file_name \/ docs[i] = replace(file_name, F3D, <<>>)}
    IN  IF matches = {} THEN 0
        ELSE CHOOSE i \in matches : \A j \in matches : i <= j

\* open_document that reports success whether or not a document was found
\* or opened
open_document_unchecked(file_path, docs, open_result) ==
    [success |-> TRUE, doc |-> NoDoc, documents |-> docs, calls |-> <<"lookup">>]

\* OrderProcessor.open_document on the open documents `docs`; open_result is
\* what documents.open does if it is called: "doc", "none" or "raises".
\* Returns (success, document), the open documents afterwards and the host
\* calls made.
open_document(file_path, docs, open_result) ==
    IF ~isinstance_str(file_path)
    THEN [success |-> FALSE, doc |-> NoDoc, documents |-> docs, calls |-> <<>>]
    ELSE LET file_name == basename(file_path.s)
             found == FirstMatch(docs, file_name)
             name == replace(file_name, F3D, <<>>)
         IN  IF found # 0
             THEN [success |-> TRUE, doc |-> docs[found], documents |-> docs,
                   calls |-> <<"lookup">>]
             ELSE IF file_path.s \notin FsFiles
             THEN [success |-> FALSE, doc |-> NoDoc, documents |-> docs,
                   calls |-> <<"lookup">>]
             ELSE IF open_result = "doc"
             THEN [success |-> TRUE, doc |-> name, documents |-> Append(docs, name),
                   calls |-> <<"lookup", "open">>]
             ELSE [success |-> FALSE, doc |-> NoDoc, documents |-> docs,
                   calls |-> <<"lookup", "open">>]

\* a component that goes on whatever its parameter results
after_parameters_ignoring_failures(results) == "regenerate"

\* process_component, lines 212-217: after the batch, "return" (failed) when
\* some parameter failed, else on to the regeneration
after_parameters(results) ==
    IF {i \in 1..Len(results) : ~results[i].success} # {} THEN "return" ELSE "regenerate"

\* a component that is post-processed whatever the regeneration did
after_regenerate_ignoring_failure(regen_success) == "post"

\* process_component, lines 273-285: a failed regeneration fails the component
after_regenerate(regen_success) == IF ~regen_success THEN "return" ELSE "post"

\* the characters of the name of a setup of the model
NameChars(name) ==
    CASE name = "S1" -> <<"S", "1">>
      [] name = "S2" -> <<"S", "2">>
      [] name = "S3" -> <<"S", "3">>
      [] OTHER -> <<>>

\* the setups narrowed to those the component names in setupNames, if any
setups_to_post_narrowed(component, setups) ==
    LET names == DictGet(component, "setupNames", JList(<<>>))
        named(setup) == \E i \in 1..Len(names.items) :
                            names.items[i] = JStr(NameChars(setup.name))
    IN  IF isinstance_list(names) /\ names.items # <<>>
        THEN SelectSeq(setups, named)
        ELSE setups

\* process_component, lines 295-307: the setups handed to
\* post_process_all_setups are those get_all_setups returns
setups_to_post(component, setups) == setups

\* a component that succeeds only when every setup was emitted
after_post_requiring_all(post_results) ==
    \A i \in 1..Len(post_results) : post_results[i].success

\* process_component, lines 317-358: the component's success from post_results
after_post(post_results) ==
    LET successful_posts == {i \in 1..Len(post_results) : post_results[i].success}
    IN  successful_posts # {}

\* a component's (success, message)
ComponentResult(success, message) == [success |-> success, message |-> message]

\* an order that succeeds as soon as one component did
order_summary_any_success(results) ==
    LET success_count == Cardinality({i \in 1..Len(results) : results[i].success})
        total_count == Len(results)
    IN  IF success_count > 0
        THEN [success |-> TRUE, message |-> "completed successfully",
              success_count |-> success_count, total_count |-> total_count]
        ELSE [success |-> FALSE, message |-> "partially completed",
              success_count |-> success_count, total_count |-> total_count]

\* process_order, lines 133-148: the (success, message) of the order from the
\* component results
order_summary(results) ==
    LET success_count == Cardinality({i \in 1..Len(results) : results[i].success})
        total_count == Len(results)
    IN  IF success_count = total_count
        THEN [success |-> TRUE, message |-> "completed successfully",
              success_count |-> success_count, total_count |-> total_count]
        ELSE [success |-> FALSE, message |-> "partially completed",
              success_count |-> success_count, total_count |-> total_count]

\* the (False, message) of an order that did not reach the summary
OrderFailed(message) ==
    [success |-> FALSE, message |-> message, success_count |-> 0, total_count |-> 0]

\* process_order has not returned
NoResult == [success |-> FALSE, message |-> "", success_count |-> 0, total_count |-> 0]


(***************************************************************************)
(* Inputs: the order files and the worlds a run starts from                *)
(***************************************************************************)
\* the most components an order file holds
MaxComponents == 3

\* the most host responses of one run that differ from the nominal one (a
\* call that raises or returns nothing, an operation the toolpath engine
\* treats against its error state, an output file that is not written)
MaxFaults == 1

Version100 == JStr(<<"1", ".", "0", ".", "0">>)

\* the componentId of the i-th component of an order: "c1", "c2", ...
ComponentId(i) == JStr(<<"c">> \o FormatInt(i))

\* both parameters exist in the model
GoodParameters ==
    JObj(<<"W", "H">>, <<JStr(<<"9", "6", " ", "i", "n">>), JFloat(365)>>)

\* "Z" does not exist in the model, "W" does
UnknownParameters ==
    JObj(<<"Z", "W">>, <<JStr(<<"2", "0", "m", "m">>), JStr(<<"1", "0", "m", "m">>)>>)

Component(id, path, parameters) ==
    JObj(<<"componentId", "fusionModelPath", "parameters">>, <<id, path, parameters>>)

\* the components an order may hold at position i
ComponentShapes(i) ==
    { Component(ComponentId(i), JStr(ModelPath), GoodParameters),
      Component(ComponentId(i), JStr(ModelPath), UnknownParameters),
      Component(ComponentId(i), JStr(ModelPath), JObj(<<>>, <<>>)),
      Component(ComponentId(i), JStr(ModelPath), JNull),
      JObj(<<"componentId", "parameters">>, <<ComponentId(i), GoodParameters>>),
      JStr(<<"x">>) }

RECURSIVE ComponentLists(_)
\* the component lists of length n
ComponentLists(n) ==
    IF n = 0 THEN {<<>>}
    ELSE {Append(l, c) : l \in ComponentLists(n - 1), c \in ComponentShapes(n)}

AllComponentLists == UNION {ComponentLists(n) : n \in 0..MaxComponents}

\* an order with all required root fields, and one without `version`
Order(components) ==
    JObj(<<"version", "orderId", "components">>,
         <<Version100, JStr(<<"o", "1">>), JList(components)>>)

OrderWithoutVersion(components) ==
    JObj(<<"orderId", "components">>, <<JStr(<<"o", "1">>), JList(components)>>)

\* what sample_order.json may be
OrderFiles ==
    {FileAbsent, FileMalformed, FileJson(JList(<<JInt(1)>>)),
     FileJson(JObj(<<"version", "orderId", "components">>,
                   <<Version100, JStr(<<"o", "1">>), JNull>>))}
    \cup {FileJson(Order(l)) : l \in AllComponentLists}
    \cup {FileJson(OrderWithoutVersion(l)) : l \in ComponentLists(0) \cup ComponentLists(1)}

\* the CAM setups of the model: one whose operation can be computed, one
\* whose operation carries an error from before the run, one whose operation
\* is suppressed
NominalSetups ==
    << Setup("S1", <<Operation("op1", FALSE, FALSE, "", "")>>),
       Setup("S2", <<Operation("op2", FALSE, FALSE, "invalid geometry", "")>>),
       Setup("S3", <<Operation("op3", TRUE, TRUE, "", "")>>) >>

\* a model whose second setup holds no operation
SetupsWithEmptySetup ==
    << Setup("S1", <<Operation("op1", FALSE, FALSE, "", "")>>), Setup("S2", <<>>) >>

\* the counter file an earlier run left
CounterFromEarlierRun == CounterFile(<<"1", "0", "0", "5", "\n">>)

\* the host before the run: the open documents, the CAM setups of the model
\* and the counter file
World(open_documents, cam_setups, counter_file) ==
    [documents |-> open_documents, setups |-> cam_setups, counter |-> counter_file]

\* a first run on a model that is not open yet, and runs on an open model
\* whose CAM data cannot be regenerated or holds no setup
Worlds ==
    { World(<<>>, NominalSetups, CounterAbsent),
      World(<<DocName>>, SetupsWithEmptySetup, CounterFromEarlierRun),
      World(<<DocName>>, <<>>, CounterAbsent) }

(***************************************************************************)
(* State                                                                   *)
(***************************************************************************)
VARIABLES
    orderFile,    \* samples/sample_order.json
    via,          \* how process_order was reached: "command", "direct"; "none" before
    pc,           \* where the run is
    validation,   \* what validate_json_file did in the Run Order command
    components,   \* process_order: the components being iterated
    idx,          \* process_order: the 1-based number of the current component
    results,      \* process_order: results, one (success, message) per component
    orderResult,  \* what process_order returned
    sidx,         \* post_process_all_setups: the number of the current setup
    posts,        \* post_process_all_setups: results
    documents,    \* host: names of the open documents (app.documents)
    store,        \* host: the expressions of the model's user parameters
    setups,       \* host: the CAM setups of the model with their operations
    counter,      \* nc_program_counter.txt
    files,        \* the output directory: the sizes of its files by name
    clock,        \* time.time() in whole seconds
    faults,       \* host responses so far that differ from the nominal one
    trace,        \* host calls and returns so far, each tagged with its component
    call          \* a single call of one method: its arguments and what it returned

vars ==
    <<orderFile, via, pc, validation, components, idx, results, orderResult, sidx,
      posts, documents, store, setups, counter, files, clock, faults, trace, call>>

\* the variables of a run of the Run Order command or of process_order
runVars ==
    <<orderFile, via, pc, validation, components, idx, results, orderResult, sidx,
      posts, documents, store, setups, counter, files, clock, faults, trace>>

hostVars == <<documents, store, setups, counter, files, clock>>

Event(c, op, arg) == [c |-> c, op |-> op, arg |-> arg]

\* no single call is under way
NoCall == [fn |-> "none"]

\* the state before a run on one of the order files `order_files`, in one of
\* the worlds `worlds`
InitWith(order_files, worlds) ==
    /\ call = NoCall
    /\ orderFile \in order_files
    /\ via = "none"
    /\ pc = "idle"
    /\ validation = "none"
    /\ components = <<>>
    /\ idx = 0
    /\ results = <<>>
    /\ orderResult = NoResult
    /\ sidx = 0
    /\ posts = <<>>
    /\ \E w \in worlds :
          /\ documents = w.documents
          /\ setups = w.setups
          /\ counter = w.counter
    /\ store = InitialStore
    /\ files = NoFiles
    /\ clock = 0
    /\ faults = 0
    /\ trace = <<>>

Init == InitWith(OrderFiles, Worlds)

(***************************************************************************)
(* command_handler.py                                                      *)
(***************************************************************************)
\* what the Run Order command makes of validate_json_file on the order file
ValidationOutcome(file) ==
    LET v == validate_json_file(file)
    IN  IF v.raised THEN "raised" ELSE IF v.value.is_valid THEN "valid" ELSE "invalid"

\* a handler that goes on whatever the validation said
after_validation_ignoring_errors(is_valid) == "process_order"

\* notify, lines 48-53: the handler returns on a failed validation
after_validation(is_valid) == IF ~is_valid THEN "handler_done" ELSE "process_order"

\* RunOrderCommandHandler.notify, lines 27-61: the sample file must exist and
\* validate; only then does the handler go on to process_order (line 88)
notify ==
    /\ pc = "idle"
    /\ via' = "command"
    /\ IF orderFile.kind = "absent"
       THEN validation' = "none" /\ pc' = "handler_done"
       ELSE /\ validation' = ValidationOutcome(orderFile)
            /\ pc' = IF validation' = "raised" THEN "handler_done"
                     ELSE after_validation(validation' = "valid")
    /\ UNCHANGED <<orderFile, components, idx, results, orderResult, sidx, posts,
                   hostVars, faults, trace, call>>

(***************************************************************************)
(* order_processor.py                                                      *)
(***************************************************************************)
\* OrderProcessor.process_order up to the loop (lines 110-126), called by
\* the Run Order command after validation, or by any other caller on a path
process_order ==
    /\ pc \in {"idle", "process_order"}
    /\ via' = IF pc = "idle" THEN "direct" ELSE via
    /\ LET b == process_order_begin(orderFile)
       IN  IF b.next = "loop"
           THEN /\ components' = b.components
                /\ idx' = 1
                /\ pc' = "component"
                /\ orderResult' = orderResult
           ELSE /\ components' = components
                /\ idx' = idx
                /\ pc' = "order_done"
                /\ orderResult' = OrderFailed(b.next)
    /\ UNCHANGED <<orderFile, validation, results, sidx, posts, hostVars, faults, trace,
                   call>>

\* process_component returns (success, message) to the loop of process_order
\* (lines 130-131), after the host calls `events`
Return(success, message, events) ==
    /\ results' = Append(results, ComponentResult(success, message))
    /\ trace' = trace \o events \o <<Event(idx, "return", success)>>
    /\ idx' = idx + 1
    /\ pc' = IF idx = Len(components) THEN "summary" ELSE "component"
    /\ UNCHANGED <<orderFile, via, validation, components, orderResult, call>>

\* process_component goes on with its next phase
Continue(phase, events) ==
    /\ pc' = phase
    /\ trace' = trace \o events
    /\ UNCHANGED <<orderFile, via, validation, components, idx, results, orderResult,
                   call>>

\* the events of the host calls `calls` made for component c
Calls(c, calls) == [i \in 1..Len(calls) |-> Event(c, calls[i], <<>>)]

\* process_component, lines 165-197: the component's fields, open_document
\* and the design of the document
process_component_open ==
    /\ pc = "component"
    /\ LET component == components[idx]
           fields == component_fields(component)
       IN  IF fields = "raises"
           THEN \* the exception leaves process_component and is caught by
                \* process_order (line 150)
                /\ orderResult' = OrderFailed("Order processing failed")
                /\ pc' = "order_done"
                /\ trace' = Append(trace, Event(idx, "raise", <<>>))
                /\ UNCHANGED <<orderFile, via, validation, components, idx, results,
                               sidx, posts, hostVars, faults, call>>
           ELSE IF fields # "ok"
           THEN /\ Return(FALSE, fields, <<>>)
                /\ UNCHANGED <<sidx, posts, hostVars, faults>>
           ELSE \E open_result \in {"doc", "none", "raises"}, has_design \in BOOLEAN :
                LET r == open_document(DictGet(component, "fusionModelPath", JStr(<<>>)),
                                       documents, open_result)
                    opened == Len(r.calls) = 2
                    cost == (IF opened /\ open_result # "doc" THEN 1 ELSE 0)
                            + (IF r.success /\ ~has_design THEN 1 ELSE 0)
                IN  /\ opened \/ open_result = "doc"
                    /\ r.success \/ has_design
                    /\ faults + cost <= MaxFaults
                    /\ faults' = faults + cost
                    /\ documents' = r.documents
                    /\ IF ~r.success
                       THEN Return(FALSE, "Failed to open document", Calls(idx, r.calls))
                       ELSE IF ~has_design
                       THEN Return(FALSE, "No design found in document",
                                   Calls(idx, r.calls))
                       ELSE Continue("parameters", Calls(idx, r.calls))
                    /\ UNCHANGED <<sidx, posts, store, setups, counter, files, clock>>

\* process_component, lines 199-231: the parameter batch
process_component_parameters ==
    /\ pc = "parameters"
    /\ LET parameters == DictGet(components[idx], "parameters", JObj(<<>>, <<>>))
       IN  IF ~isinstance_dict(parameters)
           THEN \* parameters.items() raises; caught at line 360
                /\ Return(FALSE, "Exception", <<>>)
                /\ UNCHANGED <<sidx, posts, hostVars, faults>>
           ELSE \E raises \in [1..Len(parameters.keys) -> BOOLEAN] :
                LET r == update_parameters_batch(store, parameters, raises)
                    cost == Cardinality({i \in DOMAIN raises : raises[i]})
                    events == [i \in 1..Len(r.results) |->
                                  Event(idx, "parameter", r.results[i])]
                IN  /\ \A i \in DOMAIN raises :
                           raises[i] => parameters.keys[i] \in DOMAIN store
                    /\ faults + cost <= MaxFaults
                    /\ faults' = faults + cost
                    /\ store' = r.store
                    /\ IF after_parameters(r.results) = "return"
                       THEN Return(FALSE, "Some parameters failed to update", events)
                       ELSE Continue("regenerate", events)
                    /\ UNCHANGED <<sidx, posts, documents, setups, counter, files, clock>>

\* the names of the setups regenerate_all_toolpaths returned a record for
Verified(regen_results) == [i \in 1..Len(regen_results) |-> regen_results[i].name]

\* process_component, lines 233-285: the CAM product, its setups and the
\* regeneration of all toolpaths
process_component_regenerate ==
    /\ pc = "regenerate"
    /\ \E cam_access \in {"cam", "none", "raises"}, raises \in BOOLEAN,
          flipped \in SUBSET OpPositions(setups) :
          LET r == regenerate_all_toolpaths(setups, raises, flipped)
              cost == (IF cam_access # "cam" THEN 1 ELSE 0)
                      + (IF raises THEN 1 ELSE 0) + Cardinality(flipped)
          IN  /\ cam_access # "cam" => ~raises
              /\ (cam_access # "cam" \/ raises) => flipped = {}
              /\ \A p \in flipped : ~setups[p[1]].allOperations[p[2]].isSuppressed
              /\ faults + cost <= MaxFaults
              /\ faults' = faults + cost
              /\ IF cam_access # "cam"
                 THEN /\ Return(FALSE, "CAM access failed", <<>>)
                      /\ UNCHANGED <<sidx, posts, setups>>
                 ELSE IF Len(setups) = 0
                 THEN /\ Return(FALSE, "No CAM setups found in document", <<>>)
                      /\ UNCHANGED <<sidx, posts, setups>>
                 ELSE /\ setups' = r.setups
                      /\ IF after_regenerate(r.all_success) = "return"
                         THEN /\ Return(FALSE, "Toolpath regeneration failed",
                                        <<Event(idx, "regenerate", r.all_success),
                                          Event(idx, "verified", Verified(r.results))>>)
                              /\ UNCHANGED <<sidx, posts>>
                         ELSE /\ Continue("post",
                                          <<Event(idx, "regenerate", r.all_success),
                                            Event(idx, "verified", Verified(r.results))>>)
                              /\ sidx' = 1
                              /\ posts' = <<>>
              /\ UNCHANGED <<documents, store, counter, files, clock>>

\* the engine responses post_process_setup distinguishes
Engines == {"ok", "no_post", "raises", "no_file"}

\* process_component, lines 287-358, one iteration of the loop of
\* post_process_all_setups (post_processor.py, lines 137-158) per step; the
\* last one goes on to the summary (lines 160-171) and to what
\* process_component makes of it (lines 316-358)
process_component_post ==
    /\ pc = "post"
    /\ \E read_ok \in BOOLEAN, write_ok \in BOOLEAN, now \in {clock, clock + 1},
          engine \in Engines :
          LET all_setups == setups_to_post(components[idx], setups)
              setup == all_setups[sidx]
              a == get_next_program_number(counter, read_ok, write_ok, now)
              r == post_process_setup(setup, a.number, files, engine)
              has_toolpaths == r.message # "no valid toolpaths to post"
              cost == (IF ~read_ok THEN 1 ELSE 0) + (IF ~write_ok THEN 1 ELSE 0)
                      + (IF engine # "ok" THEN 1 ELSE 0)
              after == Append(posts, [name |-> setup.name, success |-> r.success,
                                      message |-> r.message, file_path |-> r.file_path])
              events == <<Event(idx, "allocate", a.number),
                          Event(idx, "emit", <<setup.name, r.success>>)>>
                        \o (IF r.invoked THEN <<Event(idx, "postProcess", a.number)>>
                            ELSE <<>>)
          IN  /\ ~read_ok => counter.exists
              /\ ~write_ok => ~(counter.exists /\ ~ParseInt(strip(counter.text)).ok)
                              /\ read_ok
              /\ now # clock => a.fallback
              /\ engine # "ok" => has_toolpaths
              /\ faults + cost <= MaxFaults
              /\ faults' = faults + cost
              /\ counter' = a.counter
              /\ files' = r.files
              /\ clock' = now
              /\ posts' = after
              /\ IF sidx < Len(all_setups)
                 THEN Continue("post", events) /\ sidx' = sidx + 1
                 ELSE /\ sidx' = sidx
                      /\ IF ~after_post(after)
                         THEN Return(FALSE, "Post processing failed", events)
                         ELSE Return(TRUE, "Complete", events)
              /\ UNCHANGED <<documents, store, setups>>

\* process_order, lines 133-148: the summary once the loop is over
process_order_summary ==
    /\ pc = "summary"
    /\ orderResult' = order_summary(results)
    /\ pc' = "order_done"
    /\ UNCHANGED <<orderFile, via, validation, components, idx, results, sidx, posts,
                   hostVars, faults, trace, call>>

Next ==
    \/ notify
    \/ process_order
    \/ process_component_open
    \/ process_component_parameters
    \/ process_component_regenerate
    \/ process_component_post
    \/ process_order_summary

Spec == Init /\ [][Next]_vars

\* the run is one thread of control: a step that can be taken is taken (every
\* collaborator call returns, and the wait on the toolpath future, lines
\* 147-151 of cam_manager.py, ends)
SpecFair == Spec /\ WF_vars(Next)

(***************************************************************************)
(* A single call of update_parameters_batch                                *)
(***************************************************************************)
\* the most entries of the dict a single call is given
MaxBatch == 3

\* the names a dict may hold: those of the model and two it does not have
BatchNames == StoreNames \cup {"Z", "Y"}

RECURSIVE BatchKeys(_)
\* the key sequences of the dicts with n entries
BatchKeys(n) ==
    IF n = 0 THEN {<<>>}
    ELSE UNION {{Append(k, name) : name \in BatchNames \ {k[i] : i \in DOMAIN k}} :
                   k \in BatchKeys(n - 1)}

BatchValue == JStr(<<"2", "0", " ", "m", "m">>)

\* the calls: a dict of up to MaxBatch entries, and for each entry whether
\* the host raises on its write (a write only a parameter of the model gets)
BatchCalls ==
    { [fn |-> "update_parameters_batch", store |-> InitialStore,
       parameters |-> JObj(k, [i \in DOMAIN k |-> BatchValue]), raises |-> r,
       returned |-> FALSE, results |-> <<>>, store_after |-> InitialStore] :
      <<k, r>> \in UNION {{<<k, r>> : r \in {f \in [DOMAIN k -> BOOLEAN] :
                                               \A i \in DOMAIN k :
                                                  f[i] => k[i] \in StoreNames}} :
                          k \in UNION {BatchKeys(n) : n \in 0..MaxBatch}} }

\* no run of the command is under way
RunIdle ==
    /\ orderFile = FileAbsent
    /\ via = "none"
    /\ pc = "idle"
    /\ validation = "none"
    /\ components = <<>>
    /\ idx = 0
    /\ results = <<>>
    /\ orderResult = NoResult
    /\ sidx = 0
    /\ posts = <<>>
    /\ documents = <<DocName>>
    /\ store = InitialStore
    /\ setups = NominalSetups
    /\ counter = CounterAbsent
    /\ files = NoFiles
    /\ clock = 0
    /\ faults = 0
    /\ trace = <<>>

InitBatch == call \in BatchCalls /\ RunIdle

\* ParameterManager.update_parameters_batch, called and returning
call_update_parameters_batch ==
    /\ call.fn = "update_parameters_batch"
    /\ ~call.returned
    /\ LET r == update_parameters_batch(call.store, call.parameters, call.raises)
       IN  call' = [call EXCEPT !.returned = TRUE, !.results = r.results,
                                !.store_after = r.store]
    /\ UNCHANGED runVars

NextBatch == call_update_parameters_batch

SpecBatch == InitBatch /\ [][NextBatch]_vars

(***************************************************************************)
(* A sequence of calls of get_next_program_number, by any PostProcessor    *)
(* instance, on the one counter file                                       *)
(***************************************************************************)
MaxAllocations == 3

\* the PostProcessor instances: all of them use nc_program_counter.txt
\* beside the package (line 28)
Instances == {1, 2}

\* what nc_program_counter.txt may be before the first call: absent, left
\* by an earlier run, not a number, empty
CounterFiles ==
    {CounterAbsent, CounterFromEarlierRun, CounterFile(<<"a", "b", "c">>),
     CounterFile(<<>>)}

\* no order is being run
NoOrder ==
    /\ orderFile = FileAbsent
    /\ via = "none"
    /\ pc = "idle"
    /\ validation = "none"
    /\ components = <<>>
    /\ idx = 0
    /\ results = <<>>
    /\ orderResult = NoResult
    /\ sidx = 0
    /\ posts = <<>>
    /\ documents = <<DocName>>
    /\ store = InitialStore
    /\ setups = NominalSetups

InitCounter ==
    /\ NoOrder
    /\ call = NoCall
    /\ counter \in CounterFiles
    /\ files = NoFiles
    /\ clock = 0
    /\ faults = 0
    /\ trace = <<>>

\* the host outcomes an allocation on `file` at time `was` can meet: the
\* file can fail to open for reading only if it exists, the write is reached
\* only after a successful read, and time matters only to the fallback
AllocationOutcomes(file, was) ==
    {o \in [read_ok : BOOLEAN, write_ok : BOOLEAN, now : {was, was + 1}] :
        /\ ~o.read_ok => file.exists
        /\ ~o.write_ok => (o.read_ok /\ ~(file.exists /\ ~ParseInt(strip(file.text)).ok))
        /\ o.now # was =>
               get_next_program_number(file, o.read_ok, o.write_ok, o.now).fallback}

\* get_next_program_number, called on instance i and returning
call_get_next_program_number ==
    /\ Len(trace) < MaxAllocations
    /\ \E i \in Instances, o \in AllocationOutcomes(counter, clock) :
          LET a == get_next_program_number(counter, o.read_ok, o.write_ok, o.now)
          IN  /\ counter' = a.counter
              /\ clock' = o.now
              /\ trace' = Append(trace,
                              Event(i, "allocate",
                                    [before |-> counter, read_ok |-> o.read_ok,
                                     write_ok |-> o.write_ok, number |-> a.number,
                                     after |-> a.counter]))
    /\ UNCHANGED <<orderFile, via, pc, validation, components, idx, results,
                   orderResult, sidx, posts, documents, store, setups, files, faults,
                   call>>

NextCounter == call_get_next_program_number

SpecCounter == InitCounter /\ [][NextCounter]_vars

(***************************************************************************)
(* Calls of get_next_program_number that overlap in time: the method holds *)
(* no lock, so each access of the counter file is a step of its own        *)
(***************************************************************************)
MaxCallers == 2

Callers == 1..MaxCallers

\* every caller is between two calls
NoAllocation ==
    [fn |-> "get_next_program_number",
     at |-> [i \in Callers |-> "idle"],
     next_number |-> [i \in Callers |-> 0]]

InitConcurrent ==
    /\ NoOrder
    /\ call = NoAllocation
    /\ counter \in {CounterAbsent, CounterFromEarlierRun}
    /\ files = NoFiles
    /\ clock = 0
    /\ faults = 0
    /\ trace = <<>>

\* the calls begun so far
Begun == Len(trace) + Cardinality({i \in Callers : call.at[i] # "idle"})

ConcurrentUnchanged ==
    UNCHANGED <<orderFile, via, pc, validation, components, idx, results, orderResult,
                sidx, posts, documents, store, setups, files, clock, faults>>

\* lines 42-48 of a call by caller i: the counter file is read, or found
\* absent; text that is no integer raises into the except branch (56-59),
\* which returns the time-derived number
allocation_read(i) ==
    /\ call.at[i] = "idle"
    /\ Begun < MaxAllocations
    /\ LET parsed == ParseInt(strip(counter.text))
       IN  IF counter.exists /\ ~parsed.ok
           THEN /\ trace' = Append(trace, Event(i, "allocate", FallbackNumber(clock)))
                /\ UNCHANGED call
           ELSE /\ call' = [call EXCEPT
                               !.at[i] = "read",
                               !.next_number[i] = IF counter.exists THEN parsed.n + 1
                                                  ELSE FirstProgramNumber]
                /\ UNCHANGED trace
    /\ UNCHANGED counter
    /\ ConcurrentUnchanged

\* line 51: open(counter_file, 'w') creates or truncates the file
allocation_open_for_writing(i) ==
    /\ call.at[i] = "read"
    /\ counter' = CounterFile(<<>>)
    /\ call' = [call EXCEPT !.at[i] = "opened"]
    /\ UNCHANGED trace
    /\ ConcurrentUnchanged

\* lines 52-54: the number is written and returned
allocation_write(i) ==
    /\ call.at[i] = "opened"
    /\ counter' = CounterFile(FormatInt(call.next_number[i]))
    /\ trace' = Append(trace, Event(i, "allocate", call.next_number[i]))
    /\ call' = [call EXCEPT !.at[i] = "idle", !.next_number[i] = 0]
    /\ ConcurrentUnchanged

NextConcurrent ==
    \E i \in Callers :
        \/ allocation_read(i)
        \/ allocation_open_for_writing(i)
        \/ allocation_write(i)

SpecConcurrent == InitConcurrent /\ [][NextConcurrent]_vars

(***************************************************************************)
(* A single call of post_process_all_setups                                *)
(***************************************************************************)
MaxSetups == 2

PostSetupNames == <<"S1", "S2", "S3", "S4", "S5">>

\* a setup whose operation has a toolpath, one whose operation has none, and
\* one whose operation has a toolpath and is suppressed
PostSetupKinds(name) ==
    { Setup(name, <<Operation("op", FALSE, TRUE, "", "")>>),
      Setup(name, <<Operation("op", FALSE, FALSE, "", "")>>),
      Setup(name, <<Operation("op", TRUE, TRUE, "", "")>>) }

RECURSIVE PostSetupLists(_)
\* the lists of n setups
PostSetupLists(n) ==
    IF n = 0 THEN {<<>>}
    ELSE {Append(l, st) : l \in PostSetupLists(n - 1),
                          st \in PostSetupKinds(PostSetupNames[n])}

\* post_process_all_setups(cam, setups) at line 133
PostCalls ==
    { [fn |-> "post_process_all_setups", setups |-> l, at |-> 1, results |-> <<>>,
       successful_posts |-> 0, returned |-> FALSE, raised |-> FALSE,
       overall_success |-> FALSE] :
      l \in UNION {PostSetupLists(n) : n \in 0..MaxSetups} }

InitPost ==
    /\ NoOrder
    /\ call \in PostCalls
    /\ counter \in CounterFiles
    /\ files = NoFiles
    /\ clock = 0
    /\ faults = 0
    /\ trace = <<>>

PostUnchanged ==
    UNCHANGED <<orderFile, via, pc, validation, components, idx, results, orderResult,
                sidx, posts, documents, store, setups>>

\* the engine responses, with the one where the output file is left empty
PostEngines == Engines \cup {"empty_file"}

\* one iteration of the loop of post_process_all_setups, lines 137-158
post_process_all_setups_iteration ==
    /\ call.fn = "post_process_all_setups"
    /\ ~call.returned
    /\ call.at <= Len(call.setups)
    /\ \E o \in AllocationOutcomes(counter, clock), engine \in PostEngines :
          LET setup == call.setups[call.at]
              a == get_next_program_number(counter, o.read_ok, o.write_ok, o.now)
              r == post_process_setup(setup, a.number, files, engine)
              cost == (IF ~o.read_ok THEN 1 ELSE 0) + (IF ~o.write_ok THEN 1 ELSE 0)
                      + (IF engine # "ok" THEN 1 ELSE 0)
              allocation == Event(call.at, "allocate",
                                  [before |-> counter, read_ok |-> o.read_ok,
                                   write_ok |-> o.write_ok, number |-> a.number,
                                   after |-> a.counter])
          IN  /\ faults + cost <= MaxFaults
              /\ faults' = faults + cost
              /\ clock' = o.now
              /\ IF a.raised
                 THEN \* nothing in post_process_all_setups catches it
                      /\ engine = "ok"
                      /\ call' = [call EXCEPT !.returned = TRUE, !.raised = TRUE]
                      /\ trace' = Append(trace, Event(call.at, "raise", <<>>))
                      /\ UNCHANGED <<counter, files>>
                 ELSE /\ engine # "ok" => r.message # "no valid toolpaths to post"
                      /\ counter' = a.counter
                      /\ files' = r.files
                      /\ trace' = trace \o <<allocation,
                                              Event(call.at, "emit",
                                                    <<setup.name, r.success>>)>>
                                   \o (IF r.invoked
                                       THEN <<Event(call.at, "postProcess", a.number)>>
                                       ELSE <<>>)
                      /\ call' = [call EXCEPT
                              !.at = next_setup(call.at, Len(call.setups), r.success),
                              !.results = Append(@, [name |-> setup.name,
                                                     success |-> r.success,
                                                     message |-> r.message,
                                                     file_size |-> r.file_size,
                                                     file_path |-> r.file_path]),
                              !.successful_posts = IF r.success THEN @ + 1 ELSE @]
    /\ PostUnchanged

\* the summary and the return of post_process_all_setups, lines 160-171
post_process_all_setups_return ==
    /\ call.fn = "post_process_all_setups"
    /\ ~call.returned
    /\ call.at > Len(call.setups)
    /\ call' = [call EXCEPT
                   !.returned = TRUE,
                   !.overall_success = PostSummary(call.successful_posts,
                                                   Len(call.setups))]
    /\ UNCHANGED <<counter, files, clock, faults, trace>>
    /\ PostUnchanged

NextPost ==
    \/ post_process_all_setups_iteration
    \/ post_process_all_setups_return

SpecPost == InitPost /\ [][NextPost]_vars

(***************************************************************************)
(* A single call of regenerate_all_toolpaths                               *)
(***************************************************************************)
MaxCamSetups == 2

\* an operation the engine can compute, one that carries an error from
\* before the call, one that is suppressed and holds an old toolpath, and
\* one that carries a warning
OperationKinds ==
    { Operation("plain", FALSE, FALSE, "", ""),
      Operation("broken", FALSE, FALSE, "invalid geometry", ""),
      Operation("skipped", TRUE, TRUE, "", ""),
      Operation("warned", FALSE, FALSE, "", "gouge") }

\* the operations of a setup: none, one or two
OperationLists ==
    {<<>>} \cup {<<a>> : a \in OperationKinds}
           \cup {<<a, b>> : a \in OperationKinds, b \in OperationKinds}

RECURSIVE CamSetupLists(_)
\* the lists of n setups
CamSetupLists(n) ==
    IF n = 0 THEN {<<>>}
    ELSE {Append(l, Setup(PostSetupNames[n], ops)) :
             l \in CamSetupLists(n - 1), ops \in OperationLists}

\* regenerate_all_toolpaths() on a CAMManager whose cam_product is set
\* ("cam") or is not ("none")
RegenerateCalls ==
    { [fn |-> "regenerate_all_toolpaths", cam_product |-> cam, setups |-> l,
       returned |-> FALSE, raises |-> FALSE, all_success |-> FALSE,
       results |-> <<>>, setups_after |-> l, triggered |-> FALSE] :
      cam \in {"cam", "none"},
      l \in UNION {CamSetupLists(n) : n \in 0..MaxCamSetups} }

InitRegenerate == call \in RegenerateCalls /\ RunIdle

\* CAMManager.regenerate_all_toolpaths, called and returning
call_regenerate_all_toolpaths ==
    /\ call.fn = "regenerate_all_toolpaths"
    /\ ~call.returned
    /\ IF call.cam_product = "none"
       THEN \* lines 118-119
            call' = [call EXCEPT !.returned = TRUE]
       ELSE \E raises \in BOOLEAN, flipped \in SUBSET OpPositions(call.setups) :
               LET r == regenerate_all_toolpaths(call.setups, raises, flipped)
               IN  /\ raises => flipped = {}
                   /\ raises => call.setups # <<>>
                   /\ \A p \in flipped :
                          ~call.setups[p[1]].allOperations[p[2]].isSuppressed
                   /\ (IF raises THEN 1 ELSE 0) + Cardinality(flipped) <= MaxFaults
                   /\ call' = [call EXCEPT !.returned = TRUE, !.raises = raises,
                                           !.all_success = r.all_success,
                                           !.results = r.results,
                                           !.setups_after = r.setups,
                                           !.triggered = r.triggered]
    /\ UNCHANGED runVars

NextRegenerate == call_regenerate_all_toolpaths

SpecRegenerate == InitRegenerate /\ [][NextRegenerate]_vars

(***************************************************************************)
(* A single call of regenerate_specific_setups                             *)
(***************************************************************************)
MaxNames == 2

RECURSIVE NameLists(_)
\* the lists of n requested names: the setups of the model and "X"
NameLists(n) ==
    IF n = 0 THEN {<<>>}
    ELSE {Append(l, name) : l \in NameLists(n - 1), name \in {"S1", "S2", "S3", "X"}}

\* regenerate_specific_setups(setup_names) on a model with three setups,
\* with one, or with none
SpecificCalls ==
    { [fn |-> "regenerate_specific_setups", cam_product |-> cam, setups |-> l,
       setup_names |-> names, returned |-> FALSE, all_success |-> FALSE,
       results |-> <<>>, triggered |-> 0] :
      cam \in {"cam", "none"},
      l \in {NominalSetups, SubSeq(NominalSetups, 1, 1), <<>>},
      names \in UNION {NameLists(n) : n \in 0..MaxNames} }

InitSpecific == call \in SpecificCalls /\ RunIdle

\* CAMManager.regenerate_specific_setups, called and returning
call_regenerate_specific_setups ==
    /\ call.fn = "regenerate_specific_setups"
    /\ ~call.returned
    /\ \E raises \in [1..Len(call.setup_names) -> BOOLEAN] :
          LET r == regenerate_specific_setups(call.cam_product, call.setups,
                                              call.setup_names, raises)
          IN  /\ Cardinality({i \in DOMAIN raises : raises[i]}) <= MaxFaults
              /\ (\E i \in DOMAIN raises : raises[i]) => r.triggered > 0
              /\ call' = [call EXCEPT !.returned = TRUE,
                                      !.all_success = r.all_success,
                                      !.results = r.results,
                                      !.triggered = r.triggered]
    /\ UNCHANGED runVars

NextSpecific == call_regenerate_specific_setups

SpecSpecific == InitSpecific /\ [][NextSpecific]_vars

(***************************************************************************)
(* A single call of validate_order                                         *)
(***************************************************************************)
MaxOrderComponents == 2

\* a field that the document does not hold
Absent == [t |-> "absent"]

\* the object with the keys whose value is not Absent
MakeObj(keys, vals) ==
    LET held == SelectSeq([i \in 1..Len(keys) |-> i], LAMBDA i : vals[i] # Absent)
    IN  JObj([j \in 1..Len(held) |-> keys[held[j]]],
             [j \in 1..Len(held) |-> vals[held[j]]])

\* the values "96 in", 36.5 and 1
ScalarParameters ==
    JObj(<<"W", "H", "N">>,
         <<JStr(<<"9", "6", " ", "i", "n">>), JFloat(365), JInt(1)>>)

ParameterChoices ==
    { ScalarParameters, Absent, JNull, JList(<<>>), JList(<<JInt(1)>>),
      JStr(<<"x">>), JObj(<<>>, <<>>),
      JObj(<<"W">>, <<JNull>>),
      JObj(<<"W", "H">>, <<JInt(1), JNull>>),
      JObj(<<"W">>, <<JBool(TRUE)>>),
      JObj(<<"W">>, <<JBool(FALSE)>>),
      JObj(<<"W">>, <<JList(<<>>)>>),
      JObj(<<"W">>, <<JObj(<<>>, <<>>)>>),
      JObj(<<"">>, <<JInt(1)>>) }

ComponentIdChoices ==
    { JStr(<<"a">>), JStr(<<"b">>), JStr(<<>>), JInt(1), JBool(TRUE), JNull,
      JList(<<JInt(1)>>), Absent }

ValidatedComponent(id, path, parameters, setup_names) ==
    MakeObj(<<"componentId", "fusionModelPath", "parameters", "setupNames">>,
            <<id, path, parameters, setup_names>>)

\* a component with every required field in order, and its variations in
\* one field at a time; the string "x" in the place of a component
ValidatedComponents ==
    {ValidatedComponent(id, JStr(ModelPath), ScalarParameters, Absent) :
        id \in ComponentIdChoices}
    \cup {ValidatedComponent(JStr(<<"a">>), JStr(ModelPath), parameters, Absent) :
             parameters \in ParameterChoices}
    \cup {ValidatedComponent(JStr(<<"a">>), path, ScalarParameters, Absent) :
             path \in {Absent, JStr(<<>>), JInt(5)}}
    \cup {ValidatedComponent(JStr(<<"a">>), JStr(ModelPath), ScalarParameters, names) :
             names \in {JList(<<>>), JList(<<JStr(<<"S", "1">>)>>), JList(<<JInt(1)>>),
                        JStr(<<"S", "1">>)}}
    \cup {JStr(<<"x">>)}

RECURSIVE ValidatedComponentLists(_)
ValidatedComponentLists(n) ==
    IF n = 0 THEN {<<>>}
    ELSE {Append(l, c) : l \in ValidatedComponentLists(n - 1), c \in ValidatedComponents}

VersionChoices ==
    { JStr(<<"1", ".", "0", ".", "0">>), JStr(<<"0", ".", "0", ".", "1">>),
      JStr(<<"1", "0", ".", "2", "0", ".", "3", "0">>),
      JStr(<<"1", ".", "0">>), JStr(<<"1">>),
      JStr(<<"v", "1", ".", "0", ".", "0">>),
      JStr(<<"1", ".", "0", ".", "0", "-", "b", "e", "t", "a">>),
      JStr(<<>>), JStr(<<"1", ".", ".", "0">>),
      JStr(<<"1", ".", "0", ".", "0", ".">>),
      JStr(<<"1", ".", "0", ".", "0", "\n">>),
      JStr(<<"1", ".", "0", ".", SuperscriptTwo>>),
      JInt(1), JNull, JList(<<>>) }

OrderIdChoices ==
    { JStr(<<"o", "1">>), JStr(<<>>), JInt(5), JInt(0), JBool(TRUE), JBool(FALSE),
      JList(<<JInt(1)>>), JList(<<>>), JObj(<<"k">>, <<JInt(1)>>), JObj(<<>>, <<>>),
      JFloat(15), JNull }

OutputConfigChoices ==
    { JObj(<<>>, <<>>), JStr(<<"x">>), JNull,
      JObj(<<"baseDirectory", "includeTimestamp">>, <<JStr(<<"o", "u", "t">>), JBool(TRUE)>>),
      JObj(<<"baseDirectory">>, <<JInt(1)>>),
      JObj(<<"includeTimestamp">>, <<JInt(1)>>) }

RootOrder(version, order_id, component_list, output_config) ==
    MakeObj(<<"version", "orderId", "components", "outputConfig">>,
            <<version, order_id, component_list, output_config>>)

GoodVersion == JStr(<<"1", ".", "0", ".", "0">>)

GoodOrderId == JStr(<<"o", "1">>)

GoodComponents ==
    JList(<<ValidatedComponent(JStr(<<"a">>), JStr(ModelPath), ScalarParameters, Absent)>>)

\* the documents validate_order is called with: a minimal valid order
\* varied in one root field at a time, orders that lack root fields around
\* good and bad values of the others, and roots that are no object
ValidatedOrders(most) ==
    {RootOrder(v, GoodOrderId, GoodComponents, Absent) : v \in VersionChoices}
    \cup {RootOrder(GoodVersion, o, GoodComponents, Absent) : o \in OrderIdChoices}
    \cup {RootOrder(GoodVersion, GoodOrderId, JList(l), Absent) :
             l \in UNION {ValidatedComponentLists(n) : n \in 0..most}}
    \cup {RootOrder(GoodVersion, GoodOrderId, c, Absent) :
             c \in {JNull, JObj(<<>>, <<>>), JStr(<<"x">>)}}
    \cup {RootOrder(GoodVersion, GoodOrderId, GoodComponents, c) :
             c \in OutputConfigChoices}
    \cup {RootOrder(v, o, c, cfg) :
             v \in {Absent, GoodVersion, JStr(<<"1", ".", "0">>)},
             o \in {Absent, GoodOrderId, JStr(<<>>)},
             c \in {Absent, GoodComponents, JList(<<>>), JList(<<JStr(<<"x">>)>>),
                    JList(<<ValidatedComponent(Absent, Absent, JNull, Absent),
                            ValidatedComponent(Absent, Absent, JNull, Absent)>>)},
             cfg \in {Absent, JStr(<<"x">>)}}
    \cup {JList(<<>>), JNull, JStr(<<"x">>), JInt(1)}

ValidateCalls(fn) ==
    { [fn |-> fn, order_data |-> order, returned |-> FALSE,
       result |-> Returned(ValidationResult(FALSE, <<>>))] :
      order \in ValidatedOrders(MaxOrderComponents) }

InitValidate == call \in ValidateCalls("validate_order") /\ RunIdle

\* OrderValidator.validate_order, called and returning or raising
call_validate_order ==
    /\ call.fn = "validate_order"
    /\ ~call.returned
    /\ call' = [call EXCEPT !.returned = TRUE,
                            !.result = validate_order(call.order_data)]
    /\ UNCHANGED runVars

NextValidate == call_validate_order

SpecValidate == InitValidate /\ [][NextValidate]_vars

(***************************************************************************)
(* Repeated calls of validate_order on one OrderValidator instance, over   *)
(* the order documents the caller holds                                    *)
(***************************************************************************)
MaxValidations == 3

\* the instance after __init__: the schema it loaded
LoadedValidator == [schema |-> JObj(<<"version">>, <<GoodVersion>>)]

\* validate_order that takes the components out of the document it reads
validate_order_on_consuming(self, order_data) ==
    [ result |-> validate_order(order_data),
      self |-> self,
      order_data |-> IF isinstance_dict(order_data) /\ HasKey(order_data, "components")
                     THEN RootOrder(DictGet(order_data, "version", Absent),
                                    DictGet(order_data, "orderId", Absent),
                                    JList(<<>>), Absent)
                     ELSE order_data ]

\* OrderValidator.validate_order as a call on an instance: what it returns,
\* and the instance and the argument as the call leaves them.  errors and
\* component_ids are locals made anew by every call; the method assigns
\* no attribute of self and no item of order_data.
validate_order_on(self, order_data) ==
    [ result |-> validate_order(order_data),
      self |-> self,
      order_data |-> order_data ]

\* the documents a caller validates again and again
RevalidatedOrders ==
    { RootOrder(GoodVersion, GoodOrderId, GoodComponents, Absent),
      RootOrder(JStr(<<"1", ".", "0">>), JStr(<<>>), GoodComponents, JStr(<<"x">>)),
      RootOrder(GoodVersion, GoodOrderId,
                JList(<<ValidatedComponent(JStr(<<"a">>), JStr(ModelPath), JNull, Absent),
                        ValidatedComponent(JStr(<<"a">>), Absent,
                                           JObj(<<"W">>, <<JNull>>), Absent)>>),
                Absent),
      RootOrder(GoodVersion, GoodOrderId, JList(<<JStr(<<"x">>)>>), Absent),
      RootOrder(Absent, GoodOrderId, JList(<<>>), Absent),
      JList(<<>>) }

RevalidateCalls ==
    { [fn |-> "validate_order_on", self |-> LoadedValidator,
       given |-> <<a, b>>, order_documents |-> <<a, b>>, history |-> <<>>] :
      a \in RevalidatedOrders, b \in RevalidatedOrders }

InitRevalidate == call \in RevalidateCalls /\ RunIdle

\* one more call of validate_order, on either document
call_validate_order_on ==
    /\ call.fn = "validate_order_on"
    /\ Len(call.history) < MaxValidations
    /\ \E d \in 1..Len(call.order_documents) :
          LET after == validate_order_on(call.self, call.order_documents[d])
          IN  call' = [call EXCEPT
                          !.self = after.self,
                          !.order_documents[d] = after.order_data,
                          !.history = Append(@, [document |-> d,
                                                 result |-> after.result])]
    /\ UNCHANGED runVars

NextRevalidate == call_validate_order_on

SpecRevalidate == InitRevalidate /\ [][NextRevalidate]_vars

(***************************************************************************)
(* A single call of validate_json_file                                     *)
(***************************************************************************)
\* the files validate_json_file is pointed at
ValidatedFiles(most) ==
    {FileAbsent, FileMalformed, FileUndecodable}
    \cup {FileJson(order) : order \in ValidatedOrders(most)}

FileCalls(fn) ==
    { [fn |-> fn, file |-> file, returned |-> FALSE,
       result |-> Returned(ValidationResult(FALSE, <<>>))] :
      file \in ValidatedFiles(MaxOrderComponents) }

InitFile == call \in FileCalls("validate_json_file") /\ RunIdle

\* OrderValidator.validate_json_file, called and returning or raising
call_validate_json_file ==
    /\ call.fn = "validate_json_file"
    /\ ~call.returned
    /\ call' = [call EXCEPT !.returned = TRUE,
                            !.result = validate_json_file(call.file)]
    /\ UNCHANGED runVars

NextFile == call_validate_json_file

SpecFile == InitFile /\ [][NextFile]_vars

(***************************************************************************)
(* Runs on an order of one component, over the ways a component names its  *)
(* model and its setups                                                    *)
(***************************************************************************)
\* a path that is not on disk whose file name is that of the model
MovedModelPath == <<"n", "/", "S", ".", "f", "3", "d">>

\* a path that is not on disk, of a model that is not open either
MissingModelPath == <<"m", "/", "T", ".", "f", "3", "d">>

ComponentWithSetupNames(setup_names) ==
    JObj(<<"componentId", "fusionModelPath", "parameters", "setupNames">>,
         <<ComponentId(1), JStr(ModelPath), GoodParameters, JList(setup_names)>>)

\* one component: with setupNames absent, empty, naming one setup or naming
\* two in another order; with a model path that is on disk, or is not
SingleComponents ==
    { Component(ComponentId(1), JStr(ModelPath), GoodParameters),
      ComponentWithSetupNames(<<>>),
      ComponentWithSetupNames(<<JStr(<<"S", "1">>)>>),
      ComponentWithSetupNames(<<JStr(<<"S", "3">>), JStr(<<"S", "1">>)>>),
      Component(ComponentId(1), JStr(MovedModelPath), GoodParameters),
      Component(ComponentId(1), JStr(MissingModelPath), GoodParameters) }

SingleComponentOrders == {FileJson(Order(<<c>>)) : c \in SingleComponents}

\* the model is not open, is open under its name with or without the
\* extension, or another document is open
ComponentWorlds ==
    { World(<<>>, NominalSetups, CounterAbsent),
      World(<<DocName>>, NominalSetups, CounterAbsent),
      World(<<DocName \o F3D>>, NominalSetups, CounterFromEarlierRun),
      World(<<<<"O">>, DocName>>, NominalSetups, CounterAbsent),
      World(<<<<"O">>>>, NominalSetups, CounterAbsent) }

InitComponent == InitWith(SingleComponentOrders, ComponentWorlds)

SpecComponent == InitComponent /\ [][Next]_vars

(***************************************************************************)
(* Properties                                                              *)
(***************************************************************************)
\* the events of component c of one kind, in the order they happened
EventsOfKind(c, op) == SelectSeq(trace, LAMBDA e : e.c = c /\ e.op = op)

\* the kinds of events of post-processing
PostKinds == {"allocate", "emit", "postProcess"}

\* C1: once process_order has returned, its success flag is true exactly when
\* the order has components and every one of them returned success from
\* process_component; one failed component makes the order's result false.
C1_OrderSucceedsIffEveryComponentDid ==
    pc = "order_done" =>
        (orderResult.success <=>
            /\ Len(components) > 0
            /\ Len(results) = Len(components)
            /\ \A i \in 1..Len(results) : results[i].success)

\* an order of three components or more returned false with one failed
\* component among successful ones
C1_OneFailedAmongSuccessful ==
    /\ pc = "order_done"
    /\ Len(results) >= 3
    /\ Cardinality({i \in 1..Len(results) : ~results[i].success}) = 1
    /\ ~orderResult.success

\* C2: process_order processes every component of the order exactly once, in
\* order, whatever the outcome of the earlier ones; when some failed, the
\* order is reported partially completed with the count of the successful
\* ones out of all.
C2_EveryComponentProcessedOnceInOrder ==
    (pc = "order_done" /\ Len(components) > 0) =>
        LET returns == SelectSeq(trace, LAMBDA e : e.op = "return")
        IN  /\ Len(returns) = Len(components)
            /\ \A i \in 1..Len(returns) : returns[i].c = i
            /\ Len(results) = Len(components)
            /\ (\E i \in 1..Len(results) : ~results[i].success) =>
                  /\ orderResult.message = "partially completed"
                  /\ orderResult.total_count = Len(components)
                  /\ orderResult.success_count =
                        Cardinality({i \in 1..Len(results) : results[i].success})

\* C3: a component whose toolpath regeneration failed is recorded failed, and
\* no program number is allocated and no setup emitted for it.
C3_FailedRegenerationIsNeverPosted ==
    \A c \in 1..Len(components) :
        EventsOfKind(c, "regenerate") = <<Event(c, "regenerate", FALSE)>> =>
            /\ c <= Len(results)
            /\ ~results[c].success
            /\ \A i \in 1..Len(trace) : trace[i].c = c => trace[i].op \notin PostKinds

\* a component returned after a regeneration that failed
C3_RegenerationFailed ==
    \E c \in 1..Len(results) :
        /\ EventsOfKind(c, "regenerate") = <<Event(c, "regenerate", FALSE)>>
        /\ EventsOfKind(c, "return") = <<Event(c, "return", FALSE)>>

\* the names of the entries of `parameters` of component c
ParameterNames(c) == DictGet(components[c], "parameters", JObj(<<>>, <<>>)).keys

\* C4: if a parameter of a component failed to apply, the component is
\* recorded failed, neither regeneration nor emission is attempted for it,
\* and every parameter of the component was attempted and recorded.
C4_FailedParameterFailsComponent ==
    \A c \in 1..Len(components) :
        LET attempts == EventsOfKind(c, "parameter")
        IN  (\E i \in 1..Len(attempts) : ~attempts[i].arg.success) =>
                /\ c <= Len(results)
                /\ ~results[c].success
                /\ \A i \in 1..Len(trace) :
                      trace[i].c = c => trace[i].op \notin PostKinds \cup {"regenerate"}
                /\ Len(attempts) = Len(ParameterNames(c))
                /\ \A i \in 1..Len(attempts) : attempts[i].arg.name = ParameterNames(c)[i]

\* a component returned failed whose first parameter failed and whose second
\* was applied all the same
C4_FirstParameterFailed ==
    \E c \in 1..Len(results) :
        LET attempts == EventsOfKind(c, "parameter")
        IN  /\ Len(attempts) >= 2
            /\ ~attempts[1].arg.success
            /\ attempts[2].arg.success
            /\ ~results[c].success

\* C5: update_parameters_batch returns one result per entry of the dict, in
\* the dict's order; an entry whose parameter the model does not have, or
\* whose write raises, yields a false result, and the entries after it are
\* attempted all the same, each applied when its parameter exists and its
\* write does not raise.
C5_BatchRecordsEveryEntry ==
    (call.fn = "update_parameters_batch" /\ call.returned) =>
        LET keys == call.parameters.keys
            failing(i) == keys[i] \notin DOMAIN call.store \/ call.raises[i]
        IN  /\ Len(call.results) = Len(keys)
            /\ \A i \in 1..Len(keys) :
                  /\ call.results[i].name = keys[i]
                  /\ call.results[i].success <=> ~failing(i)
                  /\ ~failing(i) => call.store_after[keys[i]] = call.parameters.vals[i]
                  /\ (keys[i] \in DOMAIN call.store /\ call.raises[i]) =>
                        call.store_after[keys[i]] = call.store[keys[i]]
            /\ DOMAIN call.store_after = DOMAIN call.store

\* a batch returned whose first entry names no parameter of the model, whose
\* second entry's write raised and whose third entry was applied
C5_FailuresBeforeAnAppliedEntry ==
    /\ call.fn = "update_parameters_batch"
    /\ call.returned
    /\ Len(call.results) = 3
    /\ call.parameters.keys[1] \notin DOMAIN call.store
    /\ call.raises[2]
    /\ ~call.results[1].success
    /\ ~call.results[2].success
    /\ call.results[3].success

\* C6: when the Run Order command finds that the order file fails validation,
\* it ends without calling process_order: no order result, no component, no
\* host call, and the model, the counter file and the output directory are
\* as they were.
C6_InvalidOrderIsNeverProcessed ==
    (via = "command" /\ validation \in {"invalid", "raised"}) =>
        /\ pc = "handler_done"
        /\ orderResult = NoResult
        /\ components = <<>>
        /\ results = <<>>
        /\ trace = <<>>
        /\ store = InitialStore
        /\ files = NoFiles
        /\ World(documents, setups, counter) \in Worlds

\* the command ended on an order file that holds components and fails
\* validation
C6_CommandEndedOnInvalidOrder ==
    /\ via = "command"
    /\ validation = "invalid"
    /\ pc = "handler_done"
    /\ orderFile.kind = "json"
    /\ process_order_begin(orderFile).next = "loop"

\* C7: process_order never starts processing a component of an order
\* document the validator would reject.
C7_OnlyValidOrdersReachTheComponents ==
    (pc \in {"component", "parameters", "regenerate", "post", "summary"}
     \/ results # <<>> \/ trace # <<>>)
        => ValidationOutcome(orderFile) = "valid"

\* C8: an exception raised while a component is processed never leaves
\* process_component: the component gets a (False, message) record and the
\* components after it are processed.
C8_ComponentExceptionsAreContained ==
    /\ \A i \in 1..Len(trace) : trace[i].op # "raise"
    /\ (pc = "order_done" /\ Len(components) > 0) =>
          /\ Len(results) = Len(components)
          /\ orderResult.message # "Order processing failed"

\* the component is an object without a model path (absent or "")
DeclaresNoModelPath(component) ==
    /\ isinstance_dict(component)
    /\ DictGet(component, "fusionModelPath", JStr(<<>>)) = JStr(<<>>)

\* the component is an object without parameters (absent or {})
DeclaresNoParameters(component) ==
    /\ isinstance_dict(component)
    /\ DictGet(component, "parameters", JObj(<<>>, <<>>)) = JObj(<<>>, <<>>)

\* C9: a component that declares no model path or no parameters fails in the
\* step that starts it, and that step makes no host call and leaves the open
\* documents, the parameters of the model, its toolpaths, the program
\* counter and the output directory as they were.
C9_IncompleteComponentHasNoSideEffect ==
    [][(/\ pc = "component"
        /\ \/ DeclaresNoModelPath(components[idx])
           \/ DeclaresNoParameters(components[idx]))
       => /\ Len(results') = Len(results) + 1
          /\ ~results'[idx].success
          /\ trace' = Append(trace, Event(idx, "return", FALSE))
          /\ UNCHANGED <<hostVars, faults>>]_vars

\* a component without model path and one without parameters have returned
C9_IncompleteComponentsReturned ==
    \E c, d \in 1..Len(results) :
        /\ DeclaresNoModelPath(components[c])
        /\ results[c].message = "No fusionFile specified"
        /\ DeclaresNoParameters(components[d])
        /\ ~DeclaresNoModelPath(components[d])
        /\ results[d].message = "No parameters specified"

\* setup emissions of component c that succeeded, and that failed
Emitted(c, success) ==
    {i \in 1..Len(trace) :
        trace[i].c = c /\ trace[i].op = "emit" /\ trace[i].arg[2] = success}

\* C10: a component whose parameters and regeneration both succeeded is
\* recorded successful exactly when at least one setup was emitted.
C10_SuccessIffSomeSetupEmitted ==
    \A c \in 1..Len(results) :
        EventsOfKind(c, "regenerate") = <<Event(c, "regenerate", TRUE)>> =>
            (results[c].success <=> Emitted(c, TRUE) # {})

\* a component returned successful with one setup emitted and two that failed
C10_OneEmittedAmongFailed ==
    \E c \in 1..Len(results) :
        /\ results[c].success
        /\ Cardinality(Emitted(c, TRUE)) = 1
        /\ Cardinality(Emitted(c, FALSE)) >= 2
\* the names of the setups of the model, in order
SetupNames == [si \in 1..Len(setups) |-> setups[si].name]

\* the names of the setups component c was emitted for so far, in order
EmittedNames(c) ==
    LET emits == EventsOfKind(c, "emit")
    IN  [i \in 1..Len(emits) |-> emits[i].arg[1]]

\* C11: regeneration and emission of a component cover every setup of the
\* model, whatever the component's setupNames: the regeneration returns a
\* record for every setup, the emissions follow the model's setups in order,
\* and a component whose regeneration succeeded has returned only after an
\* emission for each of them.
C11_EverySetupIsRegeneratedAndEmitted ==
    \A c \in 1..Len(components) :
        /\ \A i \in 1..Len(trace) :
               (trace[i].c = c /\ trace[i].op = "verified")
                   => trace[i].arg = SetupNames
        /\ Len(EmittedNames(c)) <= Len(SetupNames)
        /\ EmittedNames(c) = SubSeq(SetupNames, 1, Len(EmittedNames(c)))
        /\ (c < idx /\ \E i \in 1..Len(trace) :
                           trace[i] = Event(c, "regenerate", TRUE))
               => EmittedNames(c) = SetupNames

\* a component that names one setup of three has returned, emitted for all three
C11_NamedOneSetupEmittedForAll ==
    /\ Len(components) = 1
    /\ idx = 2
    /\ DictGet(components[1], "setupNames", JNull) = JList(<<JStr(<<"S", "1">>)>>)
    /\ Len(setups) = 3
    /\ EmittedNames(1) = SetupNames

\* some open document carries the file name of `path`, with or without ".f3d"
IsOpen(path) ==
    \E i \in 1..Len(documents) :
        \/ documents[i] = basename(path)
        \/ documents[i] = replace(basename(path), F3D, <<>>)

\* the host calls of the step being taken
NewEvents == SubSeq(trace', Len(trace) + 1, Len(trace'))

\* C12: when process_component resolves the model of a component with its
\* fields in place: a matching open document is reused and documents.open is
\* not called; otherwise the model is opened from its path when the path
\* exists; when the path does not exist or documents.open returned no
\* document, the component's record is a failure and no parameter is written.
C12_ModelIsReusedOrOpenedOrTheComponentFails ==
    [][ (pc = "component" /\ component_fields(components[idx]) = "ok")
        => LET path == DictGet(components[idx], "fusionModelPath", JNull).s
               opened == \E i \in 1..Len(NewEvents) : NewEvents[i].op = "open"
               failed == /\ results' = Append(results,
                                ComponentResult(FALSE, "Failed to open document"))
                         /\ idx' = idx + 1
                         /\ pc' \in {"component", "summary"}
                         /\ store' = store
           IN  /\ IsOpen(path) => (~opened /\ documents' = documents /\ ~failed)
               /\ (~IsOpen(path) /\ path \in FsFiles) => opened
               /\ (~IsOpen(path) /\ path \notin FsFiles) => (~opened /\ failed)
               /\ (opened /\ documents' = documents) => failed
               /\ (opened /\ documents' # documents)
                      => (documents' = Append(documents, replace(basename(path), F3D, <<>>))
                          /\ ~failed)
      ]_vars

\* a model whose path is not on disk was found among the open documents and
\* its component went on to the parameters without a call of documents.open
C12_OpenModelReused ==
    /\ pc = "parameters"
    /\ DictGet(components[idx], "fusionModelPath", JNull) = JStr(MovedModelPath)
    /\ trace = <<Event(idx, "lookup", <<>>)>>

\* the k-th call met a counter file that is absent or holds an integer, and
\* could read and write it
ReadableAllocation(k) ==
    LET e == trace[k].arg
    IN  /\ e.read_ok
        /\ e.write_ok
        /\ e.before.exists => ParseInt(strip(e.before.text)).ok

\* C13: with no counter file the first allocation returns 1001 and the next
\* one 1002; on a readable counter every allocation returns the number the
\* file held plus one and leaves exactly that number in the file, so that
\* consecutive allocations, by whichever PostProcessor instance, return
\* consecutive numbers.
C13_AllocationsAreSequential ==
    /\ \A k \in 1..Len(trace) :
           ReadableAllocation(k) =>
               LET e == trace[k].arg
               IN  /\ ~e.before.exists => e.number = 1001
                   /\ e.before.exists
                          => e.number = ParseInt(strip(e.before.text)).n + 1
                   /\ e.after = CounterFile(FormatInt(e.number))
    /\ \A k \in 1..(Len(trace) - 1) :
           (ReadableAllocation(k) /\ ReadableAllocation(k + 1))
               => trace[k + 1].arg.number = trace[k].arg.number + 1
    /\ (trace # <<>> /\ ReadableAllocation(Len(trace)))
           => counter = CounterFile(FormatInt(trace[Len(trace)].arg.number))

\* from no counter file, two instances were handed 1001 and then 1002
C13_FirstTwoNumbers ==
    /\ Len(trace) = 2
    /\ ~trace[1].arg.before.exists
    /\ trace[1].c # trace[2].c
    /\ trace[1].arg.number = 1001
    /\ trace[2].arg.number = 1002
    /\ counter = CounterFile(<<"1", "0", "0", "2">>)

\* the program numbers handed to post_process_setup so far, in order
HandedNumbers ==
    LET allocations == SelectSeq(trace, LAMBDA e : e.op = "allocate")
    IN  [i \in 1..Len(allocations) |-> allocations[i].arg]

\* C14: over the emissions of a run, across setups and components, the
\* program numbers handed to the emitter are pairwise distinct, so that no
\* output file is produced twice.
C14_ProgramNumbersAreDistinct ==
    \A i, j \in 1..Len(HandedNumbers) :
        i # j => HandedNumbers[i] # HandedNumbers[j]

\* C15: allocations that interleave never return the same number: no two
\* calls of get_next_program_number, overlapping or not, were handed the
\* same program number.
C15_InterleavedAllocationsDiffer ==
    \A j, k \in 1..Len(trace) :
        (j < k /\ trace[j].op = "allocate" /\ trace[k].op = "allocate")
            => trace[j].arg # trace[k].arg

\* C16: when the counter file cannot be read, does not hold a number or
\* cannot be written, get_next_program_number raises nothing and returns a
\* fallback integer, and the batch goes on: the setup is emitted under that
\* number and the call returns a record for every setup.
C16_UnusableCounterFallsBack ==
    /\ ~call.raised
    /\ \A k \in 1..Len(trace) :
           (trace[k].op = "allocate" /\ ~ReadableAllocation(k))
               => /\ trace[k].arg.number \in 1000..10999
                  /\ trace[k].arg.after = trace[k].arg.before
                  /\ k < Len(trace)
                  /\ trace[k + 1].op = "emit"
                  /\ trace[k + 1].c = trace[k].c
    /\ call.returned => Len(call.results) = Len(call.setups)

\* a batch of two setups returned: the counter could not be used for the
\* first, and the second was emitted
C16_BatchWentOnAfterFallback ==
    /\ call.returned
    /\ Len(call.setups) = 2
    /\ trace[1].op = "allocate"
    /\ ~ReadableAllocation(1)
    /\ Len(call.results) = 2
    /\ call.results[2].success

\* C17: post_process_all_setups returns overall success exactly when at
\* least one setup was emitted successfully.
C17_OverallSuccessIffSomeSetupEmitted ==
    call.returned
        => (call.overall_success
                <=> \E i \in 1..Len(call.results) : call.results[i].success)

\* the allocations and emissions of the batch so far, in order
BatchSteps == SelectSeq(trace, LAMBDA e : e.op \in {"allocate", "emit"})

\* C18: post_process_all_setups takes the setups one after the other in
\* order, allocating one program number for each before its emission; an
\* emission that fails or raises does not keep the following setups from
\* being emitted; the results hold one record per setup, in order.
C18_EverySetupInOrder ==
    LET n == Len(call.results)
    IN  /\ n <= Len(call.setups)
        /\ call.at = n + 1
        /\ call.returned => n = Len(call.setups)
        /\ \A i \in 1..n : call.results[i].name = call.setups[i].name
        /\ Len(BatchSteps) = 2 * n
        /\ \A i \in 1..n :
               /\ BatchSteps[2 * i - 1].op = "allocate"
               /\ BatchSteps[2 * i - 1].c = i
               /\ BatchSteps[2 * i] =
                      Event(i, "emit", <<call.setups[i].name, call.results[i].success>>)

\* the engine raised for the first of two setups and the second was emitted
C18_EmittedAfterAFailure ==
    /\ call.returned
    /\ Len(call.results) = 2
    /\ call.results[1].message = "Post processing failed"
    /\ call.results[2].success

\* C19: post_process_setup on a setup that has no operation with a toolpath
\* that is not suppressed fails, does not invoke cam.postProcess and
\* creates no file.
C19_NoValidToolpathNoEmission ==
    [][ (/\ ~call.returned
         /\ call.at <= Len(call.setups)
         /\ ~\E i \in 1..Len(call.setups[call.at].allOperations) :
                LET operation == call.setups[call.at].allOperations[i]
                IN  operation.hasToolpath /\ ~operation.isSuppressed)
        => /\ files' = files
           /\ \A i \in 1..Len(NewEvents) : NewEvents[i].op # "postProcess"
           /\ call'.results =
                  Append(call.results,
                         [name |-> call.setups[call.at].name, success |-> FALSE,
                          message |-> "no valid toolpaths to post",
                          file_size |-> 0, file_path |-> <<>>])
      ]_vars

\* the first setup holds a suppressed operation with a toolpath and was
\* refused; the output directory is empty
C19_SuppressedSetupRefused ==
    /\ Len(call.results) = 1
    /\ call.setups[1].allOperations[1].hasToolpath
    /\ call.setups[1].allOperations[1].isSuppressed
    /\ ~call.results[1].success
    /\ files = NoFiles

\* C20: post_process_setup reports success only if the output file exists
\* with a size above zero once the engine has returned.
C20_SuccessMeansNonEmptyFile ==
    \A i \in 1..Len(call.results) :
        call.results[i].success
            => /\ call.results[i].file_path \in DOMAIN files
               /\ files[call.results[i].file_path] > 0

\* the call of regenerate_all_toolpaths returned its verification of the setups
Verification ==
    /\ call.returned
    /\ ~call.raises
    /\ Len(call.results) = Len(call.setups_after)

\* C21: counting only the operations that are not suppressed, a setup's
\* result is a success exactly when some operation has a toolpath or every
\* operation without a toolpath carries a pre-existing error; a setup none of
\* whose operations has a toolpath and one of which lacks it without a
\* pre-existing error is a failure.
C21_SetupSucceedsUnlessUnexplainedFailure ==
    (Verification /\ call.results # <<>>) =>
        \A si \in 1..Len(call.results) :
            LET ops == call.setups_after[si].allOperations
                counted == {i \in 1..Len(ops) : ~ops[i].isSuppressed}
            IN  call.results[si].success
                    <=> \/ \E i \in counted : ops[i].hasToolpath
                        \/ \A i \in counted :
                               ~ops[i].hasToolpath => HasText(ops[i].error)

\* C22 as stated: allSucceeded is the conjunction of the success fields of
\* the returned per-setup results, for every call.
C22_AllSucceededIsTheConjunction ==
    call.returned
        => (call.all_success
                <=> \A si \in 1..Len(call.results) : call.results[si].success)

\* C22: for every call of regenerate_all_toolpaths that returns per-setup
\* results, allSucceeded is the conjunction of their success fields; a call
\* that returns no per-setup result returns allSucceeded = false.
C22_AllSucceededIsTheConjunctionOfReturnedResults ==
    call.returned
        => /\ call.results # <<>>
                => (call.all_success
                       <=> \A si \in 1..Len(call.results) : call.results[si].success)
           /\ call.results = <<>> => ~call.all_success

\* two setups were verified, one failed and one succeeded, and the call failed
C22_OneSetupFailedOfTwo ==
    /\ Verification
    /\ Len(call.results) = 2
    /\ ~call.results[1].success
    /\ call.results[2].success
    /\ ~call.all_success

\* C23: when a requested name is not the name of a setup of the model, the
\* call of regenerate_specific_setups fails with an empty result list and
\* the engine is not triggered, also not for the names that exist.
C23_UnknownNameFailsTheWholeCall ==
    (/\ call.returned
     /\ \E i \in 1..Len(call.setup_names) :
            \A si \in 1..Len(call.setups) :
                call.setups[si].name # call.setup_names[i])
        => /\ ~call.all_success
           /\ call.results = <<>>
           /\ call.triggered = 0

\* "S1" exists, "X" does not: the call returned without any result
C23_KnownAndUnknownNameRequested ==
    /\ call.returned
    /\ call.cam_product = "cam"
    /\ call.setup_names = <<"S1", "X">>
    /\ call.setups = NominalSetups
    /\ ~call.all_success
    /\ call.results = <<>>

\* validate_order has returned an (is_valid, errors) result
Validated == call.returned /\ ~call.result.raised

\* a non-empty string
NonEmptyString(v) == v.t = "str" /\ v.s # <<>>

\* three groups of decimal digits, none empty, separated by dots
WellFormedVersion(v) ==
    /\ v.t = "str"
    /\ LET dots == {i \in 1..Len(v.s) : v.s[i] = "."}
       IN  /\ Cardinality(dots) = 2
           /\ \A i \in (1..Len(v.s)) \ dots : v.s[i] \in Digits
           /\ \A i \in dots : i \notin {1, Len(v.s)} /\ i + 1 \notin dots

\* rule 7: the component-level checks
ComponentFollowsRules(c) ==
    /\ c.t = "obj"
    /\ HasKey(c, "componentId") /\ NonEmptyString(DictGet(c, "componentId", JNull))
    /\ HasKey(c, "fusionModelPath")
    /\ NonEmptyString(DictGet(c, "fusionModelPath", JNull))
    /\ HasKey(c, "parameters")
    /\ LET parameters == DictGet(c, "parameters", JNull)
       IN  /\ parameters.t = "obj"
           /\ \A i \in 1..Len(parameters.vals) :
                  parameters.vals[i].t \in {"str", "float", "int"}
    /\ HasKey(c, "setupNames")
          => LET names == DictGet(c, "setupNames", JNull)
             IN  /\ names.t = "list"
                 /\ \A i \in 1..Len(names.items) : names.items[i].t = "str"
    /\ HasKey(c, "postProcessorConfig")
          => DictGet(c, "postProcessorConfig", JNull).t = "obj"

\* rules 1-8 of the validator's contract
FollowsRules(order) ==
    /\ order.t = "obj"
    /\ HasKey(order, "version") /\ HasKey(order, "orderId") /\ HasKey(order, "components")
    /\ WellFormedVersion(DictGet(order, "version", JNull))
    /\ NonEmptyString(DictGet(order, "orderId", JNull))
    /\ LET cs == DictGet(order, "components", JNull)
       IN  /\ cs.t = "list"
           /\ cs.items # <<>>
           /\ \A i \in 1..Len(cs.items) : ComponentFollowsRules(cs.items[i])
           /\ \A i, j \in 1..Len(cs.items) :
                  i # j => DictGet(cs.items[i], "componentId", JNull)
                              # DictGet(cs.items[j], "componentId", JNull)
    /\ HasKey(order, "outputConfig")
          => LET config == DictGet(order, "outputConfig", JNull)
             IN  /\ config.t = "obj"
                 /\ HasKey(config, "baseDirectory")
                        => DictGet(config, "baseDirectory", JNull).t = "str"
                 /\ HasKey(config, "includeTimestamp")
                        => DictGet(config, "includeTimestamp", JNull).t = "bool"

\* no component of the order names a parameter ""
ParameterNamesNonEmpty(order) ==
    LET cs == DictGet(order, "components", JNull)
    IN  \A i \in 1..Len(cs.items) :
            \A k \in 1..Len(DictGet(cs.items[i], "parameters", JNull).keys) :
                DictGet(cs.items[i], "parameters", JNull).keys[k] # ""

\* C24 as stated: validate_order returns isValid = true exactly when the
\* returned error sequence is empty, and every order that satisfies rules
\* 1-8 returns (true, empty sequence).
C24_ValidIffNoErrorAndRulesSuffice ==
    /\ Validated
          => (call.result.value.is_valid <=> call.result.value.errors = <<>>)
    /\ (call.returned /\ FollowsRules(call.order_data))
          => call.result = Returned(ValidationResult(TRUE, <<>>))

\* C24: validate_order returns isValid = true exactly when the returned
\* error sequence is empty, and every order that satisfies rules 1-8 and
\* names no parameter "" returns (true, empty sequence).
C24_ValidIffNoErrorAndRulesWithNamesSuffice ==
    /\ Validated
          => (call.result.value.is_valid <=> call.result.value.errors = <<>>)
    /\ (/\ call.returned
        /\ FollowsRules(call.order_data)
        /\ ParameterNamesNonEmpty(call.order_data))
          => call.result = Returned(ValidationResult(TRUE, <<>>))

\* an order of the required fields only, with a string, a float and an
\* integer parameter, was found valid
C24_MinimalOrderFoundValid ==
    /\ call.returned
    /\ call.order_data = RootOrder(GoodVersion, GoodOrderId, GoodComponents, Absent)
    /\ call.result = Returned(ValidationResult(TRUE, <<>>))

\* the required root fields the order lacks
MissingRootFields(order) ==
    {f \in {"version", "orderId", "components"} : ~HasKey(order, f)}

\* C25: an order object missing one or more of version, orderId, components
\* is found invalid with exactly one missing-field error per missing field
\* and no other error.
C25_MissingFieldsAreTheOnlyErrors ==
    (/\ call.returned
     /\ call.order_data.t = "obj"
     /\ MissingRootFields(call.order_data) # {})
      => /\ ~call.result.raised
         /\ ~call.result.value.is_valid
         /\ LET errors == call.result.value.errors
            IN  /\ Len(errors) = Cardinality(MissingRootFields(call.order_data))
                /\ \A f \in MissingRootFields(call.order_data) :
                       \E i \in 1..Len(errors) :
                           errors[i] = <<"Missing required field", f>>

\* an order without a version, whose orderId is empty and whose only
\* component is a string, has been validated
C25_MissingVersionAmongOtherFaults ==
    /\ call.returned
    /\ call.order_data = RootOrder(Absent, JStr(<<>>), JList(<<JStr(<<"x">>)>>),
                                   JStr(<<"x">>))
    /\ call.result.value.errors = << <<"Missing required field", "version">> >>

\* the components of a validated order whose components are a list
ValidatedItems == DictGet(call.order_data, "components", JList(<<>>)).items

\* a list of components was validated and the call returned a result
ComponentsValidated ==
    /\ Validated
    /\ call.order_data.t = "obj"
    /\ MissingRootFields(call.order_data) = {}
    /\ DictGet(call.order_data, "components", JNull).t = "list"

\* the positions whose componentId already occurs at an earlier position
RepeatedIds(items) ==
    {j \in 1..Len(items) :
        /\ HasKey(items[j], "componentId")
        /\ \E i \in 1..(j - 1) :
               /\ HasKey(items[i], "componentId")
               /\ DictGet(items[i], "componentId", JNull)
                     = DictGet(items[j], "componentId", JNull)}

\* the positions of the "Duplicate componentId" errors
DuplicateErrors(errors) ==
    {k \in 1..Len(errors) : errors[k][1] = "Duplicate componentId"}

\* C26: a components array in which some componentId occurs more than once
\* produces one "Duplicate componentId" error for each repeat, next to the
\* structural errors of those components; pairwise distinct ids produce no
\* such error.
C26_OneDuplicateErrorForEachRepeat ==
    ComponentsValidated
      => LET errors == call.result.value.errors
         IN  /\ Cardinality(DuplicateErrors(errors))
                   = Cardinality(RepeatedIds(ValidatedItems))
             /\ \A i \in 1..Len(ValidatedItems) :
                    LET structural == _validate_component(ValidatedItems[i], i - 1)
                    IN  \A k \in 1..Len(structural) :
                            \E m \in 1..Len(errors) : errors[m] = structural[k]

\* error e is an "Invalid value type" error of the component at index
InvalidValueType(e, index) ==
    /\ e[1] = "Component"
    /\ e[2] = index
    /\ Len(e) = 5
    /\ e[5] = "Invalid value type (must be number, string, or integer)"

\* error e is about the parameters of the component at index
ParameterError(e, index) ==
    /\ e[1] = "Component"
    /\ e[2] = index
    /\ \/ e[3] \in {"parameters", "parameters must be an object"}
       \/ e[3] = "Missing required field" /\ e[4] = "parameters"

\* parameters is null, a list, or an object with a null-valued entry
NullOrListOrNullEntry(parameters) ==
    \/ parameters.t \in {"null", "list"}
    \/ /\ parameters.t = "obj"
       /\ \E k \in 1..Len(parameters.vals) : parameters.vals[k].t = "null"

\* C27: a component whose parameters is null, a list, or an object with a
\* null-valued entry makes the order invalid with an "Invalid value type"
\* error; parameters "96 in", 36.5 and 1 produce no parameter error.
C27_NullOrListParametersAreAnInvalidValueType ==
    ComponentsValidated
      => \A i \in 1..Len(ValidatedItems) :
            LET errors == call.result.value.errors
                parameters == DictGet(ValidatedItems[i], "parameters", Absent)
            IN  /\ NullOrListOrNullEntry(parameters)
                      => /\ ~call.result.value.is_valid
                         /\ \E k \in 1..Len(errors) : InvalidValueType(errors[k], i - 1)
                /\ parameters = ScalarParameters
                      => \A k \in 1..Len(errors) : ~ParameterError(errors[k], i - 1)

\* C28: every value of a component's parameters object must be a string, a
\* floating-point number or an integer; a null, object, array or boolean
\* value makes the order invalid.
C28_OnlyStringsAndNumbersAreParameterValues ==
    ComponentsValidated
      => \A i \in 1..Len(ValidatedItems) :
            LET parameters == DictGet(ValidatedItems[i], "parameters", Absent)
            IN  (/\ parameters.t = "obj"
                 /\ \E k \in 1..Len(parameters.vals) :
                        parameters.vals[k].t \in {"null", "obj", "list", "bool"})
                  => ~call.result.value.is_valid

\* an order object with its three required fields was validated
RootFieldsValidated ==
    /\ Validated
    /\ call.order_data.t = "obj"
    /\ MissingRootFields(call.order_data) = {}

\* the result reports the orderId
OrderIdError ==
    \E k \in 1..Len(call.result.value.errors) :
        LET e == call.result.value.errors[k]
        IN  Len(e) = 1 /\ e[1] = "orderId cannot be empty"

\* C29: an orderId is accepted only if it is a non-empty string; the empty
\* string and every non-string value produce an orderId error and make the
\* order invalid.
C29_OrderIdIsANonEmptyString ==
    (RootFieldsValidated /\ ~NonEmptyString(DictGet(call.order_data, "orderId", JNull)))
      => OrderIdError /\ ~call.result.value.is_valid

\* the result reports the version
VersionError ==
    \E k \in 1..Len(call.result.value.errors) :
        call.result.value.errors[k][1] = "Invalid version format"

\* C30: a version is accepted if and only if it is a string of exactly three
\* dot-separated groups, each a non-empty run of decimal digits; every other
\* string and every non-string value yields a version error.
C30_VersionIsThreeDecimalGroups ==
    RootFieldsValidated
      => (VersionError <=> ~WellFormedVersion(DictGet(call.order_data, "version", JNull)))

C32_FileErrorsAreReturnedNotRaised ==
    (call.fn = "validate_json_file" /\ call.returned)
      => /\ call.file.kind = "absent"
               => call.result
                    = Returned(ValidationResult(FALSE, << <<"Order file not found">> >>))
         /\ call.file.kind \in {"malformed", "undecodable"}
               => call.result
                    = Returned(ValidationResult(FALSE, << <<"Invalid JSON syntax">> >>))
         /\ call.file.kind = "json"
               => call.result = validate_order(call.file.json)

\* the step of process_component a host event belongs to: 1 resolve the
\* document, 2 apply the parameters, 3 regenerate the toolpaths, 4 emit the
\* G-code, 5 hand the outcome back
StepOf(op) ==
    CASE op \in {"lookup", "open"} -> 1
      [] op = "parameter" -> 2
      [] op \in {"regenerate", "verified"} -> 3
      [] op \in PostKinds -> 4
      [] OTHER -> 5

\* the document component c names is among the open documents
DocumentResolved(c) ==
    LET file_path == DictGet(components[c], "fusionModelPath", JStr(<<>>))
    IN  /\ isinstance_str(file_path)
        /\ FirstMatch(documents, basename(file_path.s)) # 0

\* the host events of component c, in the order they happened
EventsOf(c) == SelectSeq(trace, LAMBDA e : e.c = c)

\* C33: within one component the steps come in the order resolve document,
\* apply parameters, regenerate toolpaths, emit G-code, each one only after
\* the one before it succeeded, and no operation of a later component comes
\* before the earlier component has returned its outcome.
C33_StepsInOrderEachAfterSuccess ==
    /\ \A j \in 1..(Len(trace) - 1) :
           /\ trace[j].c <= trace[j + 1].c
           /\ trace[j].c = trace[j + 1].c
                 => StepOf(trace[j].op) <= StepOf(trace[j + 1].op)
           /\ trace[j].c < trace[j + 1].c => trace[j].op = "return"
    /\ \A c \in 1..Len(components) :
           LET events == EventsOf(c)
               reached == {StepOf(events[j].op) : j \in 1..Len(events)}
           IN  /\ reached \cap (2..4) # {}
                     => events[1].op = "lookup" /\ DocumentResolved(c)
               /\ reached \cap (3..4) # {}
                     => /\ 2 \in reached
                        /\ \A j \in 1..Len(events) :
                               events[j].op = "parameter" => events[j].arg.success
               /\ 4 \in reached
                     => \E j \in 1..Len(events) :
                           events[j].op = "regenerate" /\ events[j].arg

\* the second component emitted G-code after the first had failed in its
\* parameters
C33_SecondComponentEmittedAfterAFailedFirst ==
    /\ Len(results) >= 2
    /\ results[1].message = "Some parameters failed to update"
    /\ results[2].success
    /\ Emitted(2, TRUE) # {}

\* C34: process_order always terminates, and when it has, every component
\* of the order has a recorded success or failure outcome: processing never
\* stops mid-run without an outcome.
C34_RunEndsWithAnOutcomeForEveryComponent ==
    /\ <>(pc \in {"order_done", "handler_done"})
    /\ [](pc = "order_done" => Len(results) = Len(components))

\* C35: validate_order returns an (is_valid, errors) result and never raises,
\* whatever JSON value it is given; every element of the components array
\* is validated on its own, an element that is no object gets an error
\* prefixed with its index, and the other components are validated all the
\* same.
C35_ValidationNeverRaises ==
    call.returned
      => /\ ~call.result.raised
         /\ ComponentsValidated
               => \A i \in 1..Len(ValidatedItems) :
                     LET errors == call.result.value.errors
                         structural == _validate_component(ValidatedItems[i], i - 1)
                     IN  /\ ValidatedItems[i].t # "obj"
                               => \E m \in 1..Len(errors) :
                                     errors[m] = <<"Component", i - 1, "Must be an object">>
                         /\ \A k \in 1..Len(structural) :
                                \E m \in 1..Len(errors) : errors[m] = structural[k]

\* the allocations of the call, in order: what each met and what it left
Allocations ==
    LET events == SelectSeq(trace, LAMBDA e : e.op = "allocate")
    IN  [k \in 1..Len(events) |-> events[k].arg]

\* the first allocation met a counter file holding an integer, and every
\* allocation could read and write the file
CounterReadableThroughout ==
    /\ Allocations # <<>>
    /\ Allocations[1].before.exists
    /\ ParseInt(strip(Allocations[1].before.text)).ok
    /\ \A k \in 1..Len(Allocations) : Allocations[k].read_ok /\ Allocations[k].write_ok

\* C36: post_process_all_setups consumes one program number for every setup
\* it is given, whether or not the setup is emitted: on a readable counter
\* holding c, the file holds c + n once the call over n setups has returned,
\* whatever the number of successes.
C36_EverySetupConsumesANumber ==
    (call.fn = "post_process_all_setups" /\ call.returned /\ ~call.raised)
      => /\ Len(Allocations) = Len(call.setups)
         /\ CounterReadableThroughout
               => counter = CounterFile(FormatInt(
                                ParseInt(strip(Allocations[1].before.text)).n
                                + Len(call.setups)))

\* of two setups the first was refused and the second emitted: its file
\* carries the second number after the counter, the first one names no file
C36_EmittedNumberAfterAGap ==
    /\ call.fn = "post_process_all_setups"
    /\ call.returned
    /\ Len(call.setups) = 2
    /\ CounterReadableThroughout
    /\ ~call.results[1].success
    /\ call.results[2].success
    /\ DOMAIN files = {OutputFilename(Allocations[2].number)}
    /\ Allocations[2].number = ParseInt(strip(Allocations[1].before.text)).n + 2

\* the successful writes of the parameter `name`, by whichever component, in
\* the order they happened: (component, old expression, new expression)
WritesOf(name) ==
    LET events == SelectSeq(trace, LAMBDA e : /\ e.op = "parameter"
                                              /\ e.arg.success
                                              /\ e.arg.name = name)
    IN  [k \in 1..Len(events) |->
            [c |-> events[k].c, old |-> events[k].arg.message[3],
             new |-> events[k].arg.message[4]]]

\* C37: parameter writes are never rolled back: whatever became of the
\* components, every parameter of the model holds the value of its last
\* successful write, and every write found the value the write before it
\* had left, also when that write was made by an earlier component that
\* was reported failed.
C37_WritesAreNeverRolledBack ==
    \A name \in StoreNames :
        LET writes == WritesOf(name)
        IN  /\ store[name] = IF writes = <<>> THEN InitialStore[name]
                              ELSE writes[Len(writes)].new
            /\ \A k \in 1..Len(writes) :
                   writes[k].old = IF k = 1 THEN InitialStore[name]
                                   ELSE writes[k - 1].new

\* the first component failed on an unknown parameter after writing "W",
\* and the second component has overwritten the value the first one left
C37_FailedComponentLeftItsWrite ==
    /\ Len(results) >= 1
    /\ results[1].message = "Some parameters failed to update"
    /\ Len(WritesOf("W")) = 2
    /\ WritesOf("W")[1].c = 1
    /\ WritesOf("W")[2].c = 2
    /\ WritesOf("W")[2].old = JStr(<<"1", "0", "m", "m">>)

\* component c is complete but for its parameters, which are the empty
\* object {}
HasEmptyParameters(c) ==
    /\ isinstance_dict(components[c])
    /\ NonEmptyString(DictGet(components[c], "componentId", JNull))
    /\ NonEmptyString(DictGet(components[c], "fusionModelPath", JNull))
    /\ HasKey(components[c], "parameters")
    /\ DictGet(components[c], "parameters", JNull) = JObj(<<>>, <<>>)

\* C38: a component whose parameters are the empty object {} passes the
\* validator without an error, yet process_component fails it at the check
\* of its parameters before any host call, so that an order that holds it
\* never completes successfully.
C38_EmptyParametersPassValidationAndFail ==
    \A c \in 1..Len(components) :
        HasEmptyParameters(c)
          => /\ _validate_component(components[c], c - 1) = <<>>
             /\ c <= Len(results)
                   => /\ results[c] = ComponentResult(FALSE, "No parameters specified")
                      /\ EventsOf(c) = <<Event(c, "return", FALSE)>>
             /\ pc = "order_done" => ~orderResult.success
             /\ (\A d \in 1..Len(components) : HasEmptyParameters(d))
                   => /\ store = InitialStore
                      /\ files = NoFiles
                      /\ faults = 0
                      /\ World(documents, setups, counter) \in Worlds

\* the Run Order command found an order valid whose second component has
\* empty parameters, the first component succeeded, and the order ended
\* failed
C38_ValidatedOrderFailedOnEmptyParameters ==
    /\ via = "command"
    /\ validation = "valid"
    /\ pc = "order_done"
    /\ Len(components) = 2
    /\ HasEmptyParameters(2)
    /\ results[1].success
    /\ ~results[2].success
    /\ ~orderResult.success

\* the counter file holds something that is no integer
HoldsNoInteger(file) == file.exists /\ ~ParseInt(strip(file.text)).ok

C40_StaleFileReportedAsSuccess ==
    [][ (call.fn = "post_process_all_setups"
            /\ Len(call'.results) = Len(call.results) + 1)
        => LET r == call'.results[Len(call'.results)]
               output_filename == OutputFilename(trace'[Len(trace) + 1].arg.number)
               invoked == /\ Len(trace') = Len(trace) + 3
                          /\ trace'[Len(trace) + 3].op = "postProcess"
           IN  ( /\ output_filename \in DOMAIN files
                 /\ files' = files
                 /\ invoked
                 /\ r.message # "Post processing failed" )
                   => /\ r.success
                      /\ r.file_path = output_filename
                      /\ r.file_size = files[output_filename] ]_vars

\* two setups were given the same number by a counter file that is no
\* integer; the engine wrote the first one's file and nothing for the second,
\* and both are reported as successes with the same output file
C40_SecondSetupReportedOnTheFirstOnesFile ==
    /\ call.fn = "post_process_all_setups"
    /\ Len(call.results) = 2
    /\ HoldsNoInteger(counter)
    /\ \A k \in 1..Len(trace) :
           trace[k].op = "allocate" => trace[k].arg.read_ok /\ trace[k].arg.write_ok
    /\ faults = 1
    /\ call.results[1].success /\ call.results[1].file_size = GcodeSize
    /\ call.results[2].success
    /\ call.results[2].file_path = call.results[1].file_path
    /\ call.results[2].file_size = GcodeSize

====
